---- MODULE Spec2Model ----
(***************************************************************************)
(* Model of the Aura inbound webhook (Aura-backend/src/routes/webhook.ts)  *)
(* and of the services it calls.  Strings whose characters matter (tenant  *)
(* ids, conversation ids, message text) are sequences of one-character     *)
(* strings; every other value is a record or a tagged record.              *)
(***************************************************************************)
EXTENDS Integers, Sequences, FiniteSets, TLC

VARIABLES
    pc,            \* where each delivery stands in the handler
    normalized,    \* the result of normalizeInbound(req.body)
    session,       \* the session object of the delivery
    userContent,   \* the result of buildUserContent
    responseText,  \* the reply text
    decision,      \* the arguments of generateReplyWithDecision
    ack,           \* the HTTP answer of the delivery
    calls,         \* the collaborator calls of the delivery, in order
    outbound,      \* the arguments of sendConversationMessage
    store,         \* the keyed cache
    now,           \* the clock, in seconds
    turns,         \* deliveries received so far
    faults,        \* collaborator calls that failed so far
    nraw,          \* a raw body given to the normalizers
    nres,          \* what they made of it
    offered,       \* a product list given to the selection
    selection,     \* what the selection made of it
    cache,         \* the catalog snapshot of the process
    clock,         \* Date.now() of the catalog, in ticks
    queried,       \* queries the catalog store has received
    issued,        \* the number of the query each caller awaits and of the
                   \* query whose rows the cache holds, in order of issue
    loading,       \* the catalog call each caller awaits
    returned,      \* the catalog call that returned last
    cosine,        \* two vectors given to cosineSim, and its result
    detection,     \* a text given to the plate detection, and what it found
    stalled        \* deliveries whose awaited call never answers

catalogVars == <<cache, clock, queried, issued, loading, returned, cosine>>

\* the state of the services when they are run on their own
serviceVars == <<offered, selection, catalogVars, detection>>

vars == <<pc, normalized, session, userContent, responseText, decision, ack,
          calls, outbound, store, now, turns, faults, nraw, nres, serviceVars,
          stalled>>

(***************************************************************************)
(* Bounds of the model.                                                    *)
(***************************************************************************)
\* deliveries received in one behaviour
MaxTurns == 2
\* last value of the clock (seconds)
MaxTime == 2

\* collaborator calls that fail in one run
MaxFaults == 2

(***************************************************************************)
(* Program constants.  The three session constants are read from the       *)
(* environment (webhook.ts:73-75); the model runs a deployment that        *)
(* configures them small.                                                  *)
(***************************************************************************)
TTL_SECONDS == 2
MAX_MESSAGES == 3
CONTEXT_WINDOW == 2
\* CATALOG_MATCH_THRESHOLD, in hundredths (0.82)
MATCH_THRESHOLD == 82
\* z.string().min(8)
MinConversationLen == 8
\* .slice(0, 4) of the alternatives
MaxAlternatives == 4

(***************************************************************************)
(* Strings.                                                                *)
(***************************************************************************)
Rep(c, n) == [i \in 1..n |-> c]

Range(s) == {s[i] : i \in 1..Len(s)}

Some(x) == <<x>>

None == <<>>

Digits == {"0", "1", "2", "3", "4", "5", "6", "7", "8", "9"}

HexChars == Digits \cup {"a", "b", "c", "d", "e", "f", "A", "B", "C", "D", "E", "F"}

\* 8-4-4-4-12 hexadecimal digits
UuidOf(c) ==
    Rep(c, 8) \o <<"-">> \o Rep(c, 4) \o <<"-">> \o Rep(c, 4) \o <<"-">>
              \o Rep(c, 4) \o <<"-">> \o Rep(c, 12)

\* z.string().uuid()
IsUuid(s) ==
    /\ Len(s) = 36
    /\ \A i \in 1..36 :
          IF i \in {9, 14, 19, 24} THEN s[i] = "-" ELSE s[i] \in HexChars

TenantA == UuidOf("a")

TenantB == UuidOf("1")

\* 36 characters, not hexadecimal
TenantBad == UuidOf("z")

\* a short name, no UUID
TenantShort == <<"l", "i", "n", "e", "1">>

Domain == <<"@", "c", ".", "u", "s">>

NumA == <<"3", "4", "6", "0", "0", "1">>

NumB == <<"3", "4", "6", "0", "0", "2">>

ConvA == NumA \o Domain

ConvA7 == NumA \o <<":", "7">> \o Domain

ConvA12 == NumA \o <<":", "1", "2">> \o Domain

ConvB == NumB \o Domain

ConvB7 == NumB \o <<":", "7">> \o Domain

\* 7 characters
ConvShort == <<"3", "4">> \o Domain

\* no '@'
ConvNoAt == NumA \o <<":", "7", "c", ".", "u", "s">>

\* two ':digits' groups, the second one before the '@'
ConvTwo == <<"3", "4", "6", ":", "4", ":", "5">> \o Domain

\* ':' followed by a letter before the '@'
ConvColonLetter == NumA \o <<":", "x">> \o Domain

Convs == {ConvA, ConvA7, ConvA12, ConvB, ConvB7, ConvShort, ConvNoAt, ConvTwo,
          ConvColonLetter}

(***************************************************************************)
(* normalizeConversationIdForOutbound: s.replace(/:\d+(?=@)/, "").  The    *)
(* regular expression matches at i when s[i] is ':' and the maximal run of *)
(* digits after it is not empty and is followed by '@'; replace() without  *)
(* the g flag rewrites the leftmost match only.                            *)
(***************************************************************************)
SuffixEnd(s, i) ==
    IF s[i] # ":" THEN 0
    ELSE LET js == {j \in (i + 1)..(Len(s) - 1) :
                       /\ \A k \in (i + 1)..j : s[k] \in Digits
                       /\ s[j + 1] = "@"}
         IN IF js = {} THEN 0 ELSE CHOOSE j \in js : TRUE

SuffixStarts(s) == {i \in 1..Len(s) : SuffixEnd(s, i) # 0}

\* an outbound id that is the inbound id as it came
conversationIdAsReceived(conversationId) == conversationId

normalizeConversationIdForOutbound(conversationId) ==
    LET starts == SuffixStarts(conversationId)
    IN IF starts = {} THEN conversationId
       ELSE LET i == CHOOSE m \in starts : \A o \in starts : m <= o
            IN SubSeq(conversationId, 1, i - 1)
                 \o SubSeq(conversationId, SuffixEnd(conversationId, i) + 1,
                           Len(conversationId))

SessPrefix == <<"s", "e", "s", "s", ":">>

\* the earlier variant of sessionKey (webhook.ts:563-565): no stripping
sessionKeyUnstripped(instanceId, conversationId) ==
    SessPrefix \o instanceId \o <<":">> \o conversationId

sessionKey(instanceId, conversationId) ==
    SessPrefix \o instanceId \o <<":">>
               \o normalizeConversationIdForOutbound(conversationId)

(***************************************************************************)
(* Message text.                                                           *)
(***************************************************************************)
TxtEmpty == <<>>

TxtHola == <<"h", "o", "l", "a">>

TxtPadded == <<" ", "o", "k", " ">>

TxtBlank == <<" ">>

TxtPlate == <<"1", "2", "3", "4", " ", "b", "c", "d">>

TxtPlate2 == <<"m", " ", "5", "6", "7", "8", " ", "z">>

\* a text with a double quote in it: di "a"
TxtQuote == <<"d", "i", " ", "\"", "a", "\"">>

\* a text with a backslash in it
TxtBackslash == <<"a", "\\", "n">>

TxtCaption == <<"f", "o", "t", "o">>

(***************************************************************************)
(* The wire payload.  p is the logical event the sender serialized:        *)
(*   instance, conversation   the ids (<<>> when the field is missing)     *)
(*   body                     message.data.body                            *)
(*   dtype                    message.data.type: "none" (missing), a       *)
(*                            string, or "num" (a JSON number)             *)
(*   mime                     "none", "audio" (audio/ogg), "image"         *)
(*   url                      "none"; "plain" (https://...); "escaped"     *)
(*                            (https:\/\/..., slashes backslash-escaped);  *)
(*                            "signed" (plain, query string with           *)
(*                            X-Amz-Algorithm=... inline)                  *)
(*   marker                   path segment of the url: "audio"             *)
(*                            (/audioMessage/ID.oga), "image"              *)
(*                            (/imageMessage/ID.jpg), "none" (no marker    *)
(*                            and no media extension)                      *)
(*   ids                      message.from.id and message.id present       *)
(*   caption                  message.data.caption                         *)
(* and the raw body says how it arrived:                                   *)
(*   shape  "nullish"    undefined, "" or 0                                *)
(*          "null"       null                                              *)
(*          "string"     a string that is no JSON                          *)
(*          "direct"     the payload object itself                         *)
(*          "key"        {"<JSON text of p>": ""}                          *)
(*          "splitkey"   form decoding cut the JSON text at the '?' of the *)
(*                       url: the key is the text up to ?X-Amz-Algorithm,  *)
(*                       the other signing parameters are sibling keys and *)
(*                       the value of X-Amz-Signature holds the rest       *)
(*          "brokenkey"  a key that starts with '{' and holds no field     *)
(*          "jsonstring" a string holding the JSON text of p               *)
(*          "escstring"  a string holding the JSON text of p with its      *)
(*                       quotes and slashes backslash-escaped once more    *)
(*   eq     the string starts with the formula-escape prefix '='           *)
(*   wrap   the whole is the value of a top-level field "body"             *)
(*   amz    sibling X-Amz-* keys: "none"; "strings" (all six, strings);    *)
(*          "nosig" (no X-Amz-Signature); "objects" (one value is a JSON   *)
(*          object with a toString member, which String() cannot convert)  *)
(***************************************************************************)
Payload(i, c, b, t, m, u, k, ids, cap) ==
    [instance |-> i, conversation |-> c, body |-> b, dtype |-> t, mime |-> m,
     url |-> u, marker |-> k, ids |-> ids, caption |-> cap]

TextPayload(i, c, b) ==
    Payload(i, c, b, "text", "none", "none", "none", TRUE, None)

Raw(shape, eq, wrap, amz, p) ==
    [shape |-> shape, eq |-> eq, wrap |-> wrap, amz |-> amz, p |-> p]

AllParams == {"X-Amz-Algorithm", "X-Amz-Credential", "X-Amz-Date", "X-Amz-Expires",
              "X-Amz-SignedHeaders", "X-Amz-Signature"}

(***************************************************************************)
(* NormalizedInbound (webhook.ts:22-31).  Optional fields are None or      *)
(* Some(v).  duration is only logged and is left out.                      *)
(***************************************************************************)
Event(i, c, t, text, mediaUrl, caption) ==
    [instance |-> i, conversation |-> c, type |-> t, text |-> text,
     mediaUrl |-> mediaUrl, caption |-> caption]

NullResult == [kind |-> "null"]

RaiseResult == [kind |-> "raise"]

EventResult(ev) == [kind |-> "event", ev |-> ev]

\* buildSignedUrl: the base with every non-empty parameter appended
buildSignedUrl(base, params) == [base |-> base, params |-> params]

\* the values read from b["X-Amz-..."]: alg defaults to AWS4-HMAC-SHA256
SiblingParams(raw) ==
    CASE raw.amz = "strings" -> AllParams
      [] raw.amz = "nosig" -> AllParams \ {"X-Amz-Signature"}
      [] OTHER -> {"X-Amz-Algorithm"}

(***************************************************************************)
(* normalizeInbound (webhook.ts:157-294), the normalizer of the route.     *)
(***************************************************************************)
normalizeInbound(raw) ==
    LET p == raw.p
        \* b = (reqBody && (reqBody.body ?? reqBody)) || {}; only an object has keys
        preKey == raw.shape \in {"key", "splitkey", "brokenkey"}
        hasAmz == preKey /\ raw.amz # "none"
        \* the regular expressions read the key as it is: a field is found when
        \* the key holds it
        seen == raw.shape \in {"key", "splitkey"}
        instance == IF seen THEN p.instance ELSE <<>>
        conversation == IF seen THEN p.conversation ELSE <<>>
        mime == IF seen THEN p.mime ELSE "none"
        typeInText == IF seen /\ p.dtype \notin {"none", "num"} THEN p.dtype ELSE "none"
        \* /audioMessage\// and https?:\/\/ need unescaped slashes
        plainUrl == seen /\ p.url \in {"plain", "signed"}
        looksAudio == \/ plainUrl /\ p.marker = "audio"
                      \/ mime = "audio"
                      \/ typeInText \in {"audio", "ptt", "voice"}
        looksImage == \/ plainUrl /\ p.marker = "image"
                      \/ mime = "image"
                      \/ typeInText = "image"
        signature == raw.amz = "strings"
        params == SiblingParams(raw)
        audioFound == IF ~plainUrl THEN None
                      ELSE IF p.url = "signed" /\ raw.shape = "key"
                           THEN Some([base |-> "payload-signed", params |-> {}])
                      ELSE IF signature
                           THEN Some(buildSignedUrl(
                                  IF raw.shape = "splitkey" THEN "payload-cut" ELSE "payload",
                                  params))
                      ELSE Some([base |-> IF raw.shape = "splitkey" THEN "payload-cut"
                                          ELSE "payload",
                                 params |-> {}])
        audioUrl == IF audioFound # None THEN audioFound
                    ELSE IF p.ids
                         THEN Some(IF signature THEN buildSignedUrl("synthesized", params)
                                   ELSE [base |-> "synthesized", params |-> {}])
                    ELSE None
        \* the image expressions read the key only: a url that ends in
        \* imageMessage/ID.ext, or any url followed by ?X-Amz-Algorithm
        imageBase == plainUrl /\ (p.marker = "image" \/ p.url = "signed"
                                   \/ raw.shape = "splitkey")
        imageUrl == IF imageBase THEN Some(buildSignedUrl("payload", params)) ELSE None
    IN IF ~preKey THEN NullResult
       ELSE IF ~hasAmz
       THEN \* 1) TEXT: JSON.parse(preKey) inside try/catch
            IF raw.shape # "key" THEN NullResult
            ELSE IF p.instance = <<>> \/ p.conversation = <<>> THEN NullResult
            ELSE EventResult(Event(p.instance, p.conversation, "text",
                                   Some(p.body), None, None))
       ELSE \* 2) MEDIA: String(b["X-Amz-..."]) comes first and is not guarded
            IF raw.amz = "objects" THEN RaiseResult
            ELSE IF instance = <<>> \/ conversation = <<>> THEN NullResult
            ELSE IF looksAudio
            THEN EventResult(Event(instance, conversation, "audio", None, audioUrl, None))
            ELSE IF looksImage
            THEN EventResult(Event(instance, conversation, "image", None, imageUrl,
                                   IF seen THEN p.caption ELSE None))
            ELSE NullResult

(***************************************************************************)
(* The normalizer of the earlier variant of the route (webhook.ts:573-828):*)
(* normalizeRaw unwraps the body, normalizeSkritInbound reads the result.  *)
(* Media urls are those of the media host the third url expression names.  *)
(***************************************************************************)
\* JSON.stringify writes a quote and a backslash of a string value escaped
RECURSIVE JsonEscape(_)
JsonEscape(s) ==
    IF s = <<>> THEN <<>>
    ELSE (IF Head(s) \in {"\"", "\\"} THEN <<"\\", Head(s)>> ELSE <<Head(s)>>)
             \o JsonEscape(Tail(s))

\* s.replace(/\\c/g, c): every backslash followed by c, left to right
RECURSIVE ReplaceEscaped(_, _)
ReplaceEscaped(s, c) ==
    IF Len(s) < 2 THEN s
    ELSE IF s[1] = "\\" /\ s[2] = c
    THEN <<c>> \o ReplaceEscaped(SubSeq(s, 3, Len(s)), c)
    ELSE <<s[1]>> \o ReplaceEscaped(Tail(s), c)

\* unescapeSkritString (webhook.ts:573-575)
unescapeSkritString(s) == ReplaceEscaped(ReplaceEscaped(s, "\""), "/")

\* the group ([^"]*) of a grab: the characters up to the next quote
UntilQuote(s) ==
    LET qs == {i \in 1..Len(s) : s[i] = "\""}
    IN IF qs = {} THEN s
       ELSE SubSeq(s, 1, (CHOOSE i \in qs : \A o \in qs : i <= o) - 1)

Falsy == [kind |-> "falsy"]

ParsedObject(p) == [kind |-> "object", p |-> p]

\* a string: "plain" (no JSON), "broken" (no field), "cut" (the JSON text up
\* to the '?' of the url), "escaped" (the JSON text written as a string value
\* once more)
StringValue(form, p) == [kind |-> "text", form |-> form, p |-> p]

\* the call stack overflows
Overflow == [kind |-> "raise"]

\* safeParseJsonString (webhook.ts:577-592): JSON.parse of the string without
\* its '=' when it starts with '{', the string itself when that fails
safeParseJsonString(raw) ==
    CASE raw.shape = "jsonstring" -> ParsedObject(raw.p)
      [] raw.shape = "escstring" -> StringValue("escaped", raw.p)
      [] OTHER -> StringValue("plain", raw.p)

\* parseJsonKeyObject (webhook.ts:601-610): JSON.parse of the key that starts
\* with '{', or the key unescaped when it does not parse
parseJsonKeyObject(raw) ==
    CASE raw.shape = "key" -> ParsedObject(raw.p)
      [] raw.shape = "splitkey" -> StringValue("cut", raw.p)
      [] OTHER -> StringValue("broken", raw.p)

\* normalizeRaw (webhook.ts:612-642).  {"body": null} is its own candidate
\* (o.body ?? reqBody) and has a body that is not undefined: normalizeRaw
\* calls itself with it, without end
normalizeRaw(raw) ==
    IF raw.shape = "null" THEN (IF raw.wrap THEN Overflow ELSE Falsy)
    ELSE IF raw.shape = "nullish" THEN Falsy
    ELSE IF raw.shape = "direct" THEN ParsedObject(raw.p)
    ELSE IF raw.shape \in {"key", "splitkey", "brokenkey"} THEN parseJsonKeyObject(raw)
    ELSE safeParseJsonString(raw)

\* inferType (webhook.ts:698-708); url is the marker of the media url
inferType(type, mime, url) ==
    IF type = "image" \/ mime = "image" \/ url = "image" THEN "image"
    ELSE IF type = "audio" \/ mime = "audio" \/ url = "audio" THEN "audio"
    ELSE "text"

\* what the string holds of a string value of the payload, and what the grab
\* expression captures of it
Grabbed(form, txt) ==
    IF form = "cut"
    THEN UntilQuote(unescapeSkritString(unescapeSkritString(JsonEscape(txt))))
    ELSE UntilQuote(unescapeSkritString(JsonEscape(JsonEscape(txt))))

\* the base url the three url expressions find in the string: the url must
\* end in a media extension; a url written with escaped slashes keeps a
\* backslash before each slash in the twice-written text and is not found
BaseUrl(form, p) ==
    IF p.url = "none" \/ p.marker = "none" THEN None
    ELSE IF form = "escaped" /\ p.url = "escaped" THEN None
    ELSE Some([base |-> "payload", params |-> {}])

\* normalizeSkritInbound (webhook.ts:710-828)
normalizeSkritInbound(v) ==
    IF v.kind = "raise" THEN RaiseResult
    ELSE IF v.kind = "falsy" THEN NullResult
    ELSE IF v.kind = "object"
    THEN LET p == v.p
             mediaUrl == IF p.url = "none" THEN None
                         ELSE Some([base |-> IF p.url = "signed" THEN "payload-signed"
                                             ELSE "payload",
                                    params |-> {}])
             type == inferType(p.dtype, p.mime,
                               IF mediaUrl = None THEN "none" ELSE p.marker)
         IN IF p.instance = <<>> \/ p.conversation = <<>> THEN NullResult
            \* (opts.type || "").toLowerCase() of a number
            ELSE IF p.dtype = "num" THEN RaiseResult
            ELSE EventResult(Event(p.instance, p.conversation, type,
                                   IF type = "text" THEN Some(p.body) ELSE None,
                                   IF type # "text" THEN mediaUrl ELSE None,
                                   p.caption))
    ELSE IF v.form \in {"plain", "broken"} THEN NullResult
    ELSE LET p == v.p
             typeRaw == IF p.dtype \in {"text", "audio", "image"} THEN p.dtype
                        ELSE "none"
             \* the signing parameters are looked for as JSON fields, and the
             \* payload has them in the query of the url
             mediaUrl == BaseUrl(v.form, p)
             type == inferType(typeRaw, p.mime,
                               IF mediaUrl = None THEN "none" ELSE p.marker)
         IN IF p.instance = <<>> \/ p.conversation = <<>> THEN NullResult
            ELSE EventResult(Event(p.instance, p.conversation, type,
                                   IF type = "text" THEN Some(Grabbed(v.form, p.body))
                                   ELSE None,
                                   IF type # "text" THEN mediaUrl ELSE None,
                                   IF p.caption = None THEN None
                                   ELSE Some(Grabbed(v.form, p.caption[1]))))

\* a schema without the uuid constraint
SchemaNoUuid(ev) ==
    /\ Len(ev.conversation) >= MinConversationLen
    /\ "@" \in Range(ev.conversation)
    /\ ev.type \in {"text", "audio", "image"}

\* NormalizedInboundSchema (webhook.ts:81-89)
SchemaOk(ev) ==
    /\ IsUuid(ev.instance)
    /\ Len(ev.conversation) >= MinConversationLen
    /\ "@" \in Range(ev.conversation)
    /\ ev.type \in {"text", "audio", "image"}

(***************************************************************************)
(* Exceptions.  A stage answers raised = TRUE when an exception leaves it; *)
(* the handler has no try/catch of its own, so the exception leaves the    *)
(* handler and the framework answers for it with status 500.  Each catch   *)
(* block of the code is an operator: what it lets through of a failure.    *)
(***************************************************************************)
\* a catch block that throws the error again
Rethrown(failed) == failed

\* catch (e) { log; return { messages: [] } }            webhook.ts:116-119
catchLoad(failed) == FALSE

\* catch (e) { log }                                      webhook.ts:136-138
catchSave(failed) == FALSE

\* catch (e) { log; return "[imagen] [fallo analisis]" }  webhook.ts:310-313
catchDescribe(failed) == FALSE

\* catch (e) { log; return "[audio] [fallo ...]" }        webhook.ts:322-325
catchTranscribe(failed) == FALSE

\* catch (e) { log }                                aimotive.client.ts:140-142
catchLookup(failed) == FALSE

\* catch (e) { log }                                      webhook.ts:376-378
catchMatch(failed) == FALSE

\* catch (e) { log; selectedProduct = null; ... }         webhook.ts:451-455
catchProducts(failed) == FALSE

\* catch (e) { log; responseText = "..." }                webhook.ts:504-507
catchGenerate(failed) == FALSE

\* catch (err) { log }                                    webhook.ts:521-526
catchSend(failed) == FALSE

(***************************************************************************)
(* Sessions (webhook.ts:33-71).  A message is [role, content, ts]; content *)
(* is [tag, txt]: the fixed wording (tag) and the text it embeds.          *)
(***************************************************************************)
Msg(role, content, ts) == [role |-> role, content |-> content, ts |-> ts]

Content(tag, txt) == [tag |-> tag, txt |-> txt]

Undef == [tag |-> "undef"]

Null == [tag |-> "null"]

Val(v) == [tag |-> "some", v |-> v]

MkSession(messages, vehicle, partMatches, selectedProduct, productAlternatives) ==
    [messages |-> messages, vehicle |-> vehicle, partMatches |-> partMatches,
     selectedProduct |-> selectedProduct,
     productAlternatives |-> productAlternatives]

\* { messages: [] }
FreshSession == MkSession(<<>>, None, None, Undef, None)

\* arr.slice(-n), n > 0
SliceLast(arr, n) ==
    IF Len(arr) <= n THEN arr ELSE SubSeq(arr, Len(arr) - n + 1, Len(arr))

\* arr.slice(0, n)
SliceFirst(arr, n) == IF Len(arr) <= n THEN arr ELSE SubSeq(arr, 1, n)

(***************************************************************************)
(* The keyed cache (lib/redis): a record for each key that was written, a  *)
(* blob with the time it expires; a read at or after that time is a miss.  *)
(* A blob is what JSON.parse makes of it: no JSON ("invalid"), the JSON null ("null"), or *)
(* a JSON object (doc) whose messages field is a list ("list"), another    *)
(* truthy value ("truthy") or missing, null, 0 or "" ("falsy").            *)
(***************************************************************************)
Record(blob, exp) == [blob |-> blob, exp |-> exp]

Live(st, key, t) == key \in DOMAIN st /\ t < st[key].exp

JsonBlob(shape, sess) == [kind |-> "json", shape |-> shape, doc |-> sess]

InvalidBlob == [kind |-> "invalid"]

NullBlob == [kind |-> "null"]

\* redis.get(key): the reply of a cache that answers
RedisGet(st, key, t) ==
    IF Live(st, key, t)
    THEN [st |-> "hit", blob |-> st[key].blob]
    ELSE [st |-> "miss"]

Fault == [st |-> "fault"]

\* an expiry that a save leaves alone once the record exists
ExpiryKept(st, key, t) ==
    IF Live(st, key, t) THEN st[key].exp ELSE t + TTL_SECONDS

\* { EX: TTL_SECONDS }
SaveExpiry(st, key, t) == t + TTL_SECONDS

\* a set that leaves a live record alone (NX)
RedisSetIfAbsent(st, key, blob, t) ==
    [k \in DOMAIN st \cup {key} |->
        IF k = key /\ ~Live(st, key, t) THEN Record(blob, t + TTL_SECONDS) ELSE st[k]]

\* redis.set(key, value, { EX: TTL_SECONDS })
RedisSet(st, key, blob, t) ==
    [k \in DOMAIN st \cup {key} |->
        IF k = key THEN Record(blob, SaveExpiry(st, key, t)) ELSE st[k]]

\* JSON.stringify(session)
Stringify(sess) == JsonBlob("list", sess)

\* an entry of a stored list that is the JSON null
NullEntry == [role |-> "none"]

\* m && (m.role === "user" || m.role === "assistant")
IsSessionRole(m) == m # NullEntry /\ m.role \in {"user", "assistant"}

\* JSON.parse(raw) throws on what is no JSON; parsed.messages = [] throws on
\* the JSON null; parsed.messages.filter is no function on a truthy value
\* that is no list
ParseThrows(blob) ==
    \/ blob.kind \in {"invalid", "null"}
    \/ blob.kind = "json" /\ blob.shape = "truthy"

\* the earlier variant (webhook.ts:847-856) returned JSON.parse(raw) as it was
ParseUnfiltered(blob) == blob.doc

\* if (!parsed?.messages) parsed.messages = []; then filter and map: content
\* and ts of a stored message are a string and a number already
ParseSession(blob) ==
    IF blob.shape = "falsy" THEN [blob.doc EXCEPT !.messages = <<>>]
    ELSE [blob.doc EXCEPT !.messages = SelectSeq(blob.doc.messages, IsSessionRole)]

\* loadSession (webhook.ts:100-120)
loadSession(get) ==
    IF get.st = "fault" THEN [s |-> FreshSession, raised |-> catchLoad(TRUE)]
    ELSE IF get.st = "miss" THEN [s |-> FreshSession, raised |-> FALSE]
    ELSE IF ParseThrows(get.blob)
    THEN [s |-> FreshSession, raised |-> catchLoad(TRUE)]
    ELSE [s |-> ParseSession(get.blob), raised |-> FALSE]

\* a save that has written nothing by the time it returns
saveSessionLater(st, key, sess, t, ok) == [st |-> st, raised |-> FALSE]

\* saveSession (webhook.ts:122-139)
saveSession(st, key, sess, t, ok) ==
    IF ok THEN [st |-> RedisSet(st, key, Stringify(sess), t), raised |-> FALSE]
    ELSE [st |-> st, raised |-> catchSave(TRUE)]

(***************************************************************************)
(* buildUserContent (webhook.ts:298-326).  out is what the description or  *)
(* transcription provider does when it is called.                          *)
(***************************************************************************)
IsSpace(c) == c \in {" ", "\n", "\t"}

\* s.trim()
Trim(s) ==
    LET keep == {i \in 1..Len(s) : ~IsSpace(s[i])}
    IN IF keep = {} THEN <<>>
       ELSE SubSeq(s, CHOOSE i \in keep : \A o \in keep : i <= o,
                      CHOOSE i \in keep : \A o \in keep : i >= o)

Ok(txt) == [st |-> "ok", txt |-> txt]

Failed == [st |-> "fail"]

Call(op, ok) == [op |-> op, ok |-> ok]

\* a call of the cache, with its key
CacheCall(op, key, ok) == [op |-> op, ok |-> ok, key |-> key]

buildUserContent(ev, out) ==
    IF ev.type = "text"
    THEN LET t == Trim(IF ev.text = None THEN <<>> ELSE ev.text[1])
         IN [content |-> IF t # <<>> THEN Content("[texto]", t)
                         ELSE Content("[texto] [vacio]", <<>>),
             called |-> <<>>, raised |-> FALSE]
    ELSE IF ev.type = "image"
    THEN IF ev.mediaUrl = None
         THEN [content |-> Content("[imagen] [sin URL]", <<>>),
               called |-> <<>>, raised |-> FALSE]
         ELSE IF out.st = "ok"
         THEN [content |-> IF ev.caption # None /\ ev.caption[1] # <<>>
                           THEN Content("Imagen analizada: Caption:",
                                        ev.caption[1] \o <<"\n">> \o out.txt)
                           ELSE Content("Imagen analizada:", out.txt),
               called |-> <<Call("describe", TRUE)>>, raised |-> FALSE]
         ELSE [content |-> Content("[imagen] [fallo analisis]", <<>>),
               called |-> <<Call("describe", FALSE)>>, raised |-> catchDescribe(TRUE)]
    ELSE IF ev.mediaUrl = None
         THEN [content |-> Content("[audio] [sin URL]", <<>>),
               called |-> <<>>, raised |-> FALSE]
         ELSE IF out.st = "ok"
         THEN [content |-> IF out.txt # <<>> THEN Content("[audio transcrito]", out.txt)
                           ELSE Content("[audio] [sin texto transcrito]", <<>>),
               called |-> <<Call("transcribe", TRUE)>>, raised |-> FALSE]
         ELSE [content |-> Content("[audio] [fallo transcripcion]", <<>>),
               called |-> <<Call("transcribe", FALSE)>>, raised |-> catchTranscribe(TRUE)]

(***************************************************************************)
(* The vehicle service (aimotive.client.ts:96-143).                        *)
(*   PLATE_RE = /\b(\d{4}\s*[A-Z]{3}|[A-Z]{1,2}\s*\d{4}\s*[A-Z]{0,2})\b/i  *)
(***************************************************************************)
LowerSeq == <<"a", "b", "c", "d", "e", "f", "g", "h", "i", "j", "k", "l", "m",
              "n", "o", "p", "q", "r", "s", "t", "u", "v", "w", "x", "y", "z">>

UpperSeq == <<"A", "B", "C", "D", "E", "F", "G", "H", "I", "J", "K", "L", "M",
              "N", "O", "P", "Q", "R", "S", "T", "U", "V", "W", "X", "Y", "Z">>

LowerChars == Range(LowerSeq)

Letters == LowerChars \cup Range(UpperSeq)

IsLetter(c) == c \in Letters

IsDigit(c) == c \in Digits

IsWordChar(c) == IsLetter(c) \/ IsDigit(c) \/ c = "_"

ToUpper(c) ==
    IF c \in LowerChars
    THEN UpperSeq[CHOOSE i \in 1..Len(LowerSeq) : LowerSeq[i] = c]
    ELSE c

WordAt(s, i) == i \in 1..Len(s) /\ IsWordChar(s[i])

\* \b between s[i-1] and s[i]
Boundary(s, i) == WordAt(s, i - 1) # WordAt(s, i)

\* n characters of class P from s[i]
Run(s, i, n, P(_)) == i + n - 1 <= Len(s) /\ \A k \in i..(i + n - 1) : P(s[k])

\* the index after the white space that starts at s[i]
SkipSpaces(s, i) ==
    CHOOSE j \in i..(Len(s) + 1) :
        /\ \A k \in i..(j - 1) : IsSpace(s[k])
        /\ j = Len(s) + 1 \/ ~IsSpace(s[j])

\* [A-Z]{3}\b from s[k]: the index after the match, or 0
Grammar1Tail(s, k) ==
    IF Run(s, k, 3, IsLetter) /\ Boundary(s, k + 3) THEN k + 3 ELSE 0

\* \b\d{4}\s*[A-Z]{3}\b from s[i]: the index after the match, or 0
Grammar1End(s, i) ==
    IF Boundary(s, i) /\ Run(s, i, 4, IsDigit)
    THEN Grammar1Tail(s, SkipSpaces(s, i + 4))
    ELSE 0

\* \d{4}\s*[A-Z]{0,2}\b from s[k]: the ends the backtracking can reach
Grammar2Tail(s, k) ==
    IF Run(s, k, 4, IsDigit)
    THEN {e \in (k + 4)..(Len(s) + 1) :
            /\ Boundary(s, e)
            /\ \E sp \in (k + 4)..e :
                  /\ \A x \in (k + 4)..(sp - 1) : IsSpace(s[x])
                  /\ e - sp <= 2
                  /\ \A x \in sp..(e - 1) : IsLetter(s[x])}
    ELSE {}

\* \b[A-Z]{1,2}\s*\d{4}\s*[A-Z]{0,2}\b from s[i] with nl leading letters
Grammar2Ends(s, i, nl) ==
    IF Boundary(s, i) /\ Run(s, i, nl, IsLetter)
    THEN Grammar2Tail(s, SkipSpaces(s, i + nl))
    ELSE {}

\* the end the backtracking reaches first: two leading letters before one,
\* then the most white space and the most letters, which is the largest end
FirstEnd(two, one) ==
    IF two # {} THEN CHOOSE e \in two : \A o \in two : e >= o
    ELSE IF one # {} THEN CHOOSE e \in one : \A o \in one : e >= o
    ELSE 0

Grammar2End(s, i) == FirstEnd(Grammar2Ends(s, i, 2), Grammar2Ends(s, i, 1))

\* the first alternative of the regular expression before the second
FirstAlternative(a, b) == IF a # 0 THEN a ELSE b

PlateEnd(s, i) == FirstAlternative(Grammar1End(s, i), Grammar2End(s, i))

\* m[0] of the leftmost of the matches that start at the indexes in starts
LeftmostMatch(s, starts) ==
    IF starts = {} THEN None
    ELSE LET i == CHOOSE m \in starts : \A o \in starts : m <= o
         IN Some(SubSeq(s, i, PlateEnd(s, i) - 1))

\* text.match(PLATE_RE): m[0] of the leftmost match, None without a match
PlateMatch(s) == LeftmostMatch(s, {i \in 1..Len(s) : PlateEnd(s, i) # 0})

NotSpace(c) == ~IsSpace(c)

\* p.toUpperCase().replace(/\s+/g, "")
cleanPlate(p) == SelectSeq([i \in 1..Len(p) |-> ToUpper(p[i])], NotSpace)

\* session.vehicle: the plate and the vehicle id; vin, brand, model and fuel
\* are copied from the reply and read by nothing but the prompt
Vehicle(plate, vehicleId) == [plate |-> plate, vehicleId |-> vehicleId]

\* searchVehicleByPlate: it fails, or answers data.plate (None when the
\* reply has none) and the id of data.vehicles[0] (None for an empty list)
LookupFailed == [st |-> "fail"]

LookupOk(plate, vehicleId) == [st |-> "ok", plate |-> plate, vehicleId |-> vehicleId]

SamePlate(sess, plate) == sess.vehicle # None /\ sess.vehicle[1].plate = plate

maybeCacheVehicleFromText(text, sess, out) ==
    LET m == PlateMatch(text)
    IN IF m = None THEN [s |-> sess, called |-> <<>>, raised |-> FALSE]
       ELSE LET plate == cleanPlate(m[1])
            IN IF SamePlate(sess, plate)
               THEN [s |-> sess, called |-> <<>>, raised |-> FALSE]
               ELSE IF out.st = "ok"
               THEN [s |-> [sess EXCEPT !.vehicle =
                              Some(Vehicle(IF out.plate = None THEN plate
                                           ELSE out.plate[1],
                                           out.vehicleId))],
                     called |-> <<Call("searchByPlate", TRUE)>>, raised |-> FALSE]
               ELSE [s |-> sess, called |-> <<Call("searchByPlate", FALSE)>>,
                     raised |-> catchLookup(TRUE)]

(***************************************************************************)
(* The catalog match of the turn (webhook.ts:366-378).  A match is         *)
(* [id, score], the score in hundredths; canonical_name is carried along   *)
(* and read by nothing but the prompt.  _cachedAt and textSample of        *)
(* session.partMatches are written and never read.                         *)
(***************************************************************************)
PartMatch(id, score) == [id |-> id, score |-> score]

MatchesOk(matches) == [st |-> "ok", matches |-> matches]

\* a match stage that tries a failed match a second time
matchStageRetried(sess, out) ==
    IF out.st = "ok"
    THEN [s |-> [sess EXCEPT !.partMatches = Some(out.matches)],
          called |-> <<Call("matchCanonicalByEmbedding", TRUE)>>, raised |-> FALSE]
    ELSE [s |-> sess,
          called |-> <<Call("matchCanonicalByEmbedding", FALSE),
                       Call("matchCanonicalByEmbedding", FALSE)>>,
          raised |-> catchMatch(TRUE)]

matchStage(sess, out) ==
    IF out.st = "ok"
    THEN [s |-> [sess EXCEPT !.partMatches = Some(out.matches)],
          called |-> <<Call("matchCanonicalByEmbedding", TRUE)>>, raised |-> FALSE]
    ELSE [s |-> sess, called |-> <<Call("matchCanonicalByEmbedding", FALSE)>>,
          raised |-> catchMatch(TRUE)]

(***************************************************************************)
(* Products (types/products.ts, product-normalizer.service.ts).  A product *)
(* is what getProductsForVehicleAndFamily returns: ref, brandCode,         *)
(* turnover and price (None when the reply had no finite number) and       *)
(* isAvailable ("true", "false", "unknown").                               *)
(***************************************************************************)
Product(ref, brandCode, turnover, price, isAvailable) ==
    [ref |-> ref, brandCode |-> brandCode, turnover |-> turnover, price |-> price,
     isAvailable |-> isAvailable]

\* Number(a.turnover || 0)
Turnover(a) == IF a.turnover = None THEN 0 ELSE a.turnover[1]

\* a comparator that counts a missing price as 0
SortsBeforeFreeFirst(a, b) ==
    \/ Turnover(a) > Turnover(b)
    \/ /\ Turnover(a) = Turnover(b)
       /\ b.price # None
       /\ a.price = None \/ a.price[1] < b.price[1]

\* the comparator of selectWinner is negative: a sorts before b
SortsBefore(a, b) ==
    \/ Turnover(a) > Turnover(b)
    \/ /\ Turnover(a) = Turnover(b)
       /\ a.price # None
       /\ b.price = None \/ a.price[1] < b.price[1]

\* Array.prototype.sort is stable: x goes after every element that does not
\* sort after it
RECURSIVE InsertSorted(_, _)
InsertSorted(sorted, x) ==
    IF sorted = <<>> THEN <<x>>
    ELSE IF SortsBefore(x, Head(sorted)) THEN <<x>> \o sorted
    ELSE <<Head(sorted)>> \o InsertSorted(Tail(sorted), x)

RECURSIVE SortParts(_)
SortParts(products) ==
    IF products = <<>> THEN <<>>
    ELSE InsertSorted(SortParts(SubSeq(products, 1, Len(products) - 1)),
                      products[Len(products)])

\* a filter that lets unknown availability through
NotUnavailable(x) == x.isAvailable # "false"

\* p.isAvailable === true
IsAvailable(x) == x.isAvailable = "true"

\* selectWinner (product-normalizer.service.ts:23-40)
selectWinner(products) ==
    LET parts == SortParts(products)
        inStock == SelectSeq(parts, IsAvailable)
    IN [selectedPart |-> IF inStock # <<>> THEN Val(inStock[1])
                         ELSE IF parts # <<>> THEN Val(parts[1]) ELSE Null,
        partsSorted |-> parts,
        \* const parts = [...products]: the argument keeps its order
        products |-> products]

\* normalizeByFamily (product-normalizer.service.ts:8-21): a passthrough
normalizeByFamily(familyId, products) == [primary |-> products, related |-> <<>>]

ProductsFailed == [st |-> "fail"]

\* the reply of the product service was no list
ProductsNoList == [st |-> "nolist"]

ProductsOk(list) == [st |-> "ok", list |-> list]

\* session.partMatches?.matches?.[0] ?? null
BestMatch(sess) ==
    IF sess.partMatches # None /\ sess.partMatches[1] # <<>>
    THEN Some(sess.partMatches[1][1]) ELSE None

\* a test that takes every vehicle id that is not null, 0 too
WantsProductsNotNull(sess) ==
    /\ sess.vehicle # None
    /\ sess.vehicle[1].vehicleId # None
    /\ BestMatch(sess) # None

\* vehicleId && familyId && best: 0 and null are falsy
WantsProducts(sess) ==
    /\ sess.vehicle # None
    /\ sess.vehicle[1].vehicleId # None
    /\ sess.vehicle[1].vehicleId[1] # 0
    /\ BestMatch(sess) # None
    /\ BestMatch(sess)[1].id # 0

\* alternatives that leave out every product with the ref of the winner
AlternativesByRef(sel, partsSorted) ==
    LET Other(x) == IF sel.tag = "some" THEN x.ref # sel.v.ref ELSE TRUE
    IN SliceFirst(SelectSeq(partsSorted, Other), MaxAlternatives)

\* partsSorted.filter(ref or brandCode differs from the winner).slice(0, 4)
Alternatives(sel, partsSorted) ==
    LET Other(x) == IF sel.tag = "some"
                    THEN x.ref # sel.v.ref \/ x.brandCode # sel.v.brandCode
                    ELSE TRUE
    IN SliceFirst(SelectSeq(partsSorted, Other), MaxAlternatives)

\* a product stage that leaves the session alone when it skips the selection
productStageKept(sess, out) ==
    IF ~WantsProducts(sess)
    THEN [s |-> sess, called |-> <<>>, raised |-> FALSE]
    ELSE IF out.st = "ok"
    THEN LET primary == normalizeByFamily(BestMatch(sess)[1].id, out.list).primary
             pickBase == IF primary # <<>> THEN primary ELSE out.list
             w == selectWinner(pickBase)
         IN [s |-> [sess EXCEPT !.selectedProduct = w.selectedPart,
                                !.productAlternatives =
                                    Some(Alternatives(w.selectedPart, w.partsSorted))],
             called |-> <<Call("productsByVehicle", TRUE)>>, raised |-> FALSE]
    ELSE [s |-> [sess EXCEPT !.selectedProduct = Null,
                             !.productAlternatives = Some(<<>>)],
          called |-> <<Call("productsByVehicle", out.st = "nolist")>>,
          raised |-> catchProducts(TRUE)]

\* webhook.ts:380-455
productStage(sess, out) ==
    IF ~WantsProducts(sess)
    THEN [s |-> [sess EXCEPT !.selectedProduct = Null,
                             !.productAlternatives = Some(<<>>)],
          called |-> <<>>, raised |-> FALSE]
    ELSE IF out.st = "ok"
    THEN LET primary == normalizeByFamily(BestMatch(sess)[1].id, out.list).primary
             pickBase == IF primary # <<>> THEN primary ELSE out.list
             w == selectWinner(pickBase)
         IN [s |-> [sess EXCEPT !.selectedProduct = w.selectedPart,
                                !.productAlternatives =
                                    Some(Alternatives(w.selectedPart, w.partsSorted))],
             called |-> <<Call("productsByVehicle", TRUE)>>, raised |-> FALSE]
    ELSE [s |-> [sess EXCEPT !.selectedProduct = Null,
                             !.productAlternatives = Some(<<>>)],
          called |-> <<Call("productsByVehicle", out.st = "nolist")>>,
          raised |-> catchProducts(TRUE)]

(***************************************************************************)
(* Appends and the reply (webhook.ts:457-511).                             *)
(***************************************************************************)
\* an append that keeps the first entries
appendKeepOldest(messages, m) == SliceFirst(Append(messages, m), MAX_MESSAGES)

\* session.messages.push(m); session.messages = session.messages.slice(-MAX_MESSAGES)
appendMessage(messages, m) == SliceLast(Append(messages, m), MAX_MESSAGES)

\* a history of the oldest messages of the list
RecentOldest(messages) ==
    LET w == SliceFirst(messages, CONTEXT_WINDOW)
    IN [i \in 1..Len(w) |-> [role |-> w[i].role, content |-> w[i].content]]

\* .slice(-CONTEXT_WINDOW).map(m => ({ role, content }))
Recent(messages) ==
    LET w == SliceLast(messages, CONTEXT_WINDOW)
    IN [i \in 1..Len(w) |-> [role |-> w[i].role, content |-> w[i].content]]

\* a flag that is also set for a score equal to the threshold
askAtThreshold(hasSelected, best) ==
    ~hasSelected /\ best # None /\ best[1].score <= MATCH_THRESHOLD

\* !hasSelected && Boolean(best && best.score < MATCH_THRESHOLD)
askOneClarifyingQuestion(hasSelected, best) ==
    ~hasSelected /\ best # None /\ best[1].score < MATCH_THRESHOLD

\* the DecisionContext handed to the generator, with the history
Decision(sess) ==
    LET best == BestMatch(sess)
        hasSelected == sess.selectedProduct.tag = "some"
    IN [recent |-> Recent(sess.messages),
        part |-> best,
        vehicle |-> sess.vehicle,
        selectedProduct |-> IF hasSelected THEN Some(sess.selectedProduct.v) ELSE None,
        alternatives |-> IF sess.productAlternatives # None
                            /\ sess.productAlternatives[1] # <<>>
                         THEN sess.productAlternatives ELSE None,
        askOneClarifyingQuestion |-> askOneClarifyingQuestion(hasSelected, best)]

NoDecision == [recent |-> <<>>]

TextGenerated == Content("generated", <<>>)

TextBlank == Content("Me quede en blanco", <<>>)

TextSorry == Content("Tuve un problema pensando eso", <<>>)

\* a reply stage that lets the empty string of the generator through
generateStageAsReturned(out) ==
    IF out.st = "ok"
    THEN [text |-> IF out.txt # <<>> THEN TextGenerated ELSE Content("", <<>>),
          called |-> <<Call("generateReplyWithDecision", TRUE)>>, raised |-> FALSE]
    ELSE [text |-> TextSorry,
          called |-> <<Call("generateReplyWithDecision", FALSE)>>,
          raised |-> catchGenerate(TRUE)]

\* out: Ok(<<"r">>) a reply, Ok(<<>>) the empty string, Failed
generateStage(out) ==
    IF out.st = "ok"
    THEN [text |-> IF out.txt # <<>> THEN TextGenerated ELSE TextBlank,
          called |-> <<Call("generateReplyWithDecision", TRUE)>>, raised |-> FALSE]
    ELSE [text |-> TextSorry,
          called |-> <<Call("generateReplyWithDecision", FALSE)>>,
          raised |-> catchGenerate(TRUE)]

(***************************************************************************)
(* The deliveries the model sends to the endpoint, and what the            *)
(* collaborators answer.                                                   *)
(***************************************************************************)
AsKey(p) == Raw("key", FALSE, FALSE, "none", p)

\* the payload with message.from.isMine = true: the sender marks what the
\* assistant itself sent to the conversation
FromMe(p) ==
    [f \in DOMAIN p \cup {"isMine"} |-> IF f = "isMine" THEN TRUE ELSE p[f]]

\* message.from.isMine === true
IsMine(p) == "isMine" \in DOMAIN p /\ p.isMine

\* the text of a reply the assistant sent
TxtOwn == <<"v", "a", "l", "e">>

AudioPayload(i, c, u, ids) ==
    Payload(i, c, <<>>, "audio", "audio", u, "audio", ids, None)

ImagePayload(i, c, u, cap) ==
    Payload(i, c, <<>>, "image", "image", u, "image", TRUE, cap)

PipelineBodies ==
    { AsKey(TextPayload(TenantA, ConvA7, TxtHola)),
      AsKey(TextPayload(TenantA, ConvA, TxtPlate)),
      AsKey(TextPayload(TenantA, ConvA, TxtPlate2)),
      AsKey(TextPayload(TenantB, ConvA12, TxtBlank)),
      Raw("splitkey", FALSE, FALSE, "strings",
          AudioPayload(TenantA, ConvB7, "escaped", TRUE)),
      Raw("key", FALSE, TRUE, "nosig", AudioPayload(TenantA, ConvTwo, "none", FALSE)),
      Raw("splitkey", FALSE, FALSE, "strings",
          ImagePayload(TenantB, ConvB, "plain", Some(TxtCaption))),
      Raw("key", FALSE, FALSE, "nosig", ImagePayload(TenantB, ConvTwo, "none", None)),
      AsKey(TextPayload(TenantBad, ConvA, TxtHola)),
      AsKey(TextPayload(TenantShort, ConvA, TxtHola)),
      AsKey(TextPayload(TenantA, ConvShort, TxtHola)),
      AsKey(TextPayload(TenantA, ConvNoAt, TxtHola)),
      Raw("direct", FALSE, FALSE, "none", TextPayload(TenantA, ConvA, TxtHola)),
      Raw("nullish", FALSE, FALSE, "none", TextPayload(<<>>, <<>>, <<>>)),
      Raw("key", FALSE, FALSE, "objects", AudioPayload(TenantA, ConvA, "plain", TRUE)),
      AsKey(FromMe(TextPayload(TenantA, ConvB, TxtOwn))) }

\* the provider is called for an event with a media URL: it fails, or
\* returns a transcript (possibly empty) or a description
ProviderOutcomes(ev) ==
    IF ev.type = "text" \/ ev.mediaUrl = None THEN {Failed}
    ELSE IF ev.type = "audio" THEN {Ok(TxtPlate2), Ok(<<>>), Failed}
    ELSE {Ok(TxtHola), Failed}

\* the vehicle registry knows one plate; the lookup fails or answers
Registry(plate) ==
    IF plate = cleanPlate(TxtPlate) THEN LookupOk(Some(plate), Some(7))
    ELSE LookupOk(None, None)

\* a plate as it is displayed: a space after its fourth character
Display(plate) == SubSeq(plate, 1, 4) \o <<" ">> \o SubSeq(plate, 5, Len(plate))

\* a registry that answers the plate it knows in its displayed form
RegistryDisplay(plate) ==
    IF plate = cleanPlate(TxtPlate) THEN LookupOk(Some(Display(plate)), Some(7))
    ELSE LookupOk(None, None)

\* a registry whose first vehicle of a plate it does not know has id 0
RegistryZeroId(plate) ==
    IF plate = cleanPlate(TxtPlate) THEN LookupOk(Some(plate), Some(7))
    ELSE LookupOk(Some(plate), Some(0))

LookupOutcomes(text) ==
    LET m == PlateMatch(text)
    IN IF m = None THEN {LookupFailed}
       ELSE {LookupFailed, Registry(cleanPlate(m[1])), RegistryDisplay(cleanPlate(m[1])),
             RegistryZeroId(cleanPlate(m[1]))}

\* the catalog: a text with a plate is close to family 1, a greeting is just
\* under the threshold for family 3, any other text is at the threshold for
\* it, no text matches nothing
Catalog(text) ==
    IF text = <<>> THEN <<>>
    ELSE IF PlateMatch(text) # None THEN <<PartMatch(1, 90), PartMatch(2, 50)>>
    ELSE IF text = TxtHola THEN <<PartMatch(3, 81)>>
    ELSE <<PartMatch(3, 82)>>

MatchOutcomes(text) == {Failed, MatchesOk(Catalog(text))}

ProdA == Product("r1", "b1", Some(9), Some(100), "false")

ProdB == Product("r2", "b1", Some(5), Some(10), "unknown")

ProdC == Product("r2", "b2", Some(5), Some(8), "true")

\* the product service has three products of family 1, one of family 3 and
\* none of another
Shelf(familyId) ==
    IF familyId = 1 THEN <<ProdB, ProdA, ProdC>>
    ELSE IF familyId = 3 THEN <<ProdB>>
    ELSE <<>>

ProductOutcomes(sess) ==
    IF WantsProducts(sess)
    THEN {ProductsFailed, ProductsNoList, ProductsOk(Shelf(BestMatch(sess)[1].id))}
    ELSE {ProductsFailed}

GenerateOutcomes == {Ok(<<"r">>), Ok(<<>>), Failed}

(***************************************************************************)
(* Numbers (catalog.service.ts:19-30 computes in IEEE 754 binary64).  The  *)
(* model keeps the structure of the format and shortens it: a finite       *)
(* number is a whole count of the smallest positive number, it has at most *)
(* MantissaSteps significant steps, a result is rounded to the nearest     *)
(* number that has (ties to the even one), a result beyond MaxFinite is an *)
(* infinity, and there is a NaN.                                           *)
(***************************************************************************)
\* the numbers below MantissaSteps smallest steps are all there
MantissaSteps == 8

\* 1.0, counted in smallest steps
One == 4

\* the largest finite number (Number.MAX_VALUE)
MaxFinite == 56

Num(m) == [kind |-> "num", m |-> m]

Infinity(sign) == [kind |-> "inf", m |-> sign]

NaN == [kind |-> "nan", m |-> 0]

Abs(i) == IF i < 0 THEN -i ELSE i

Sign(i) == IF i < 0 THEN -1 ELSE IF i > 0 THEN 1 ELSE 0

\* the distance between neighbouring numbers around n/d
RECURSIVE Spacing(_, _, _)
Spacing(n, d, s) == IF n < MantissaSteps * s * d THEN s ELSE Spacing(n, d, 2 * s)

\* n/d rounded to a whole number, ties to the even one
NearestEven(n, d) ==
    IF 2 * (n % d) < d THEN n \div d
    ELSE IF 2 * (n % d) > d THEN (n \div d) + 1
    ELSE IF (n \div d) % 2 = 0 THEN n \div d
    ELSE (n \div d) + 1

\* the magnitude n/d, n >= 0 and d > 0, as the nearest number of the format
RoundTo(n, d, s, sign) ==
    IF NearestEven(n, d * s) * s > MaxFinite THEN Infinity(sign)
    ELSE Num(sign * NearestEven(n, d * s) * s)

\* the exact result n/d, d > 0, as the operation stores it
Round(n, d) == RoundTo(Abs(n), d, Spacing(Abs(n), d, 1), IF n < 0 THEN -1 ELSE 1)

\* a * b
Mul(a, b) ==
    IF a.kind = "nan" \/ b.kind = "nan" THEN NaN
    ELSE IF a.kind = "inf" \/ b.kind = "inf"
         THEN IF a.m = 0 \/ b.m = 0 THEN NaN ELSE Infinity(Sign(a.m) * Sign(b.m))
    ELSE Round(a.m * b.m, One)

\* a + b
Add(a, b) ==
    IF a.kind = "nan" \/ b.kind = "nan" THEN NaN
    ELSE IF a.kind = "inf" /\ b.kind = "inf"
         THEN IF a.m = b.m THEN a ELSE NaN
    ELSE IF a.kind = "inf" THEN a
    ELSE IF b.kind = "inf" THEN b
    ELSE Round(a.m + b.m, 1)

\* a - b
Sub(a, b) == Add(a, [b EXCEPT !.m = -b.m])

\* a / b, for a divisor that is neither 0 nor NaN
Div(a, b) ==
    IF a.kind = "nan" THEN NaN
    ELSE IF a.kind = "inf"
         THEN IF b.kind = "inf" THEN NaN ELSE Infinity(a.m * Sign(b.m))
    ELSE IF b.kind = "inf" THEN Num(0)
    ELSE Round(Sign(b.m) * a.m * One, Abs(b.m))

\* the whole part of the root of n
RECURSIVE FloorRoot(_, _)
FloorRoot(n, r) == IF (r + 1) * (r + 1) > n THEN r ELSE FloorRoot(n, r + 1)

\* the largest number of the format that is at most f
Below(f) == f - (f % Spacing(f, 1, 1))

\* the nearest to the root of n of the neighbouring numbers lo and hi around
\* it, ties to the even one
NearestRoot(n, lo, hi) ==
    IF lo * lo = n \/ 4 * n < (lo + hi) * (lo + hi) THEN lo
    ELSE IF 4 * n > (lo + hi) * (lo + hi) THEN hi
    ELSE IF (lo \div (hi - lo)) % 2 = 0 THEN lo
    ELSE hi

RootOf(n, lo) == NearestRoot(n, lo, lo + Spacing(lo, 1, 1))

\* Math.sqrt(a)
Sqrt(a) ==
    IF a.kind = "nan" \/ a.m < 0 THEN NaN
    ELSE IF a.kind = "inf" THEN a
    ELSE Num(RootOf(a.m * One, Below(FloorRoot(a.m * One, 0))))

\* a value used as a condition: 0 and NaN are falsy
Truthy(a) == a.kind = "inf" \/ (a.kind = "num" /\ a.m # 0)

\* an element of an array, undefined past its end; undefined in arithmetic
\* is NaN
At(a, i) == IF i \in DOMAIN a THEN a[i] ELSE NaN

\* dot (catalog.service.ts:19-23): the loop runs over the length of a
RECURSIVE dotUpTo(_, _, _)
dotUpTo(a, b, n) ==
    IF n = 0 THEN Num(0)
    ELSE Add(dotUpTo(a, b, n - 1), Mul(a[n], At(b, n)))

dot(a, b) == dotUpTo(a, b, Len(a))

\* norm (catalog.service.ts:24-26)
norm(a) == Sqrt(dot(a, a))

\* denom ? num / denom : 0
Quotient(num, denom) == IF Truthy(denom) THEN Div(num, denom) ELSE Num(0)

\* cosineSim (catalog.service.ts:27-30)
cosineSim(a, b) == Quotient(dot(a, b), Mul(norm(a), norm(b)))

(***************************************************************************)
(* The catalog (catalog.service.ts): rows of the store, their embeddings,  *)
(* the cache of the process and the ranking of the rows for a text.        *)
(***************************************************************************)
\* a vector of numbers, from their counts of smallest steps
Vector(ms) == [i \in DOMAIN ms |-> Num(ms[i])]

\* embedding_json as the driver hands it over: an array or null
JsonArray(ms) == [json |-> "array", v |-> Vector(ms)]

JsonNull == [json |-> "null", v |-> <<>>]

DbRow(id, embedding_json) == [id |-> id, embedding_json |-> embedding_json]

CatalogRow(id, emb) == [id |-> id, emb |-> emb]

\* parseEmbedding (catalog.service.ts:32-68) throws on null and on what is
\* not an array
parseEmbeddingThrows(value) == value.json # "array"

parseEmbedding(value) == value.v

\* rows.map(...) of loadCatalogEmbeddings (catalog.service.ts:80-84)
ParseRows(rows) ==
    [i \in DOMAIN rows |-> CatalogRow(rows[i].id, parseEmbedding(rows[i].embedding_json))]

RowsThrow(rows) == \E i \in DOMAIN rows : parseEmbeddingThrows(rows[i].embedding_json)

\* the window of the cache (10 * 60 * 1000 ms), in ticks of the model's clock
ttlMs == 2

\* a cache that keeps a snapshot one tick longer
FreshWithin(snapshot, t, window) ==
    snapshot # None /\ t - snapshot[1].loadedAt <= window

\* cache && Date.now() - cache.loadedAt < ttlMs (catalog.service.ts:72)
Fresh(snapshot, t, window) ==
    snapshot # None /\ t - snapshot[1].loadedAt < window

\* !force && cache && ... (catalog.service.ts:72)
ServedFromCache(force, snapshot, t) == ~force /\ Fresh(snapshot, t, ttlMs)

Snapshot(rows, t) == [rows |-> rows, loadedAt |-> t]

\* a scored row (catalog.service.ts:94-98)
Scored(r, qEmb) == [id |-> r.id, score |-> cosineSim(qEmb, r.emb)]

RECURSIVE ScoreRows(_, _)
ScoreRows(catalog, qEmb) ==
    IF catalog = <<>> THEN <<>>
    ELSE <<Scored(Head(catalog), qEmb)>> \o ScoreRows(Tail(catalog), qEmb)

\* a difference as sort reads it: its sign, and +0 for NaN
SignRead(diff) == IF diff.kind = "nan" THEN 0 ELSE Sign(diff.m)

\* the comparator (a, b) => b.score - a.score (catalog.service.ts:99)
Compare(a, b) == SignRead(Sub(b.score, a.score))

\* the comparator is consistent on the elements (ECMAScript, Array.prototype
\* .sort): equality and order are transitive
Consistent(list) ==
    \A i, j, k \in DOMAIN list :
        /\ Compare(list[i], list[j]) = 0 /\ Compare(list[j], list[k]) = 0
              => Compare(list[i], list[k]) = 0
        /\ Compare(list[i], list[j]) < 0 /\ Compare(list[j], list[k]) < 0
              => Compare(list[i], list[k]) < 0
        /\ Compare(list[i], list[j]) > 0 /\ Compare(list[j], list[k]) > 0
              => Compare(list[i], list[k]) > 0
        /\ Compare(list[i], list[j]) = 0 => Compare(list[j], list[i]) = 0

\* the stable sort of a list under a consistent comparator
RECURSIVE InsertScored(_, _)
InsertScored(sorted, x) ==
    IF sorted = <<>> THEN <<x>>
    ELSE IF Compare(x, Head(sorted)) < 0 THEN <<x>> \o sorted
    ELSE <<Head(sorted)>> \o InsertScored(Tail(sorted), x)

RECURSIVE SortScored(_)
SortScored(list) ==
    IF list = <<>> THEN <<>>
    ELSE InsertScored(SortScored(SubSeq(list, 1, Len(list) - 1)), list[Len(list)])

Reorderings(list) ==
    { [i \in DOMAIN list |-> list[p[i]]] :
        p \in {f \in [DOMAIN list -> DOMAIN list] :
                 \A i, j \in DOMAIN list : i # j => f[i] # f[j]} }

\* what .sort(...) may leave: the stable order, or, for a comparator that is
\* not consistent, an order the engine picks
SortOutcomes(list) ==
    IF Consistent(list) THEN {SortScored(list)} ELSE Reorderings(list)

\* matchCanonicalByEmbedding after its two awaits (catalog.service.ts:93-100)
RankOutcomes(catalog, qEmb, topK) ==
    UNION {{SliceFirst(sorted, topK) : sorted \in SortOutcomes(scored)} :
             scored \in {ScoreRows(catalog, qEmb)}}

(***************************************************************************)
(* What the store of the catalog and the embedding provider may answer.    *)
(***************************************************************************)
\* three rows of embeddings of two numbers; rows 1 and 3 carry the same one
TableThree ==
    <<DbRow(1, JsonArray(<<One, 0>>)), DbRow(2, JsonArray(<<0, One>>)),
      DbRow(3, JsonArray(<<One, 0>>))>>

\* the catalog after an edit: one row
TableOne == <<DbRow(4, JsonArray(<<One, One>>))>>

\* row 2 was embedded by a model of fewer dimensions
TableShort ==
    <<DbRow(1, JsonArray(<<0, One>>)), DbRow(2, JsonArray(<<One>>)),
      DbRow(3, JsonArray(<<One, 0>>))>>

\* row 2 has no embedding
TableNull == <<DbRow(1, JsonArray(<<One, 0>>)), DbRow(2, JsonNull)>>

Tables == {<<>>, TableThree, TableOne, TableShort, TableNull}

QueryFailed == [st |-> "failed", rows |-> <<>>]

QueryOk(rows) == [st |-> "ok", rows |-> rows]

\* mysqlPool.query rejects or resolves with rows
QueryOutcomes == {QueryFailed} \cup {QueryOk(t) : t \in Tables}

EmbedFailed == [st |-> "failed", emb |-> <<>>]

EmbedOk(emb) == [st |-> "ok", emb |-> emb]

\* embedText rejects or resolves with the embedding of the text
EmbedOutcomes ==
    {EmbedFailed, EmbedOk(Vector(<<One, 0>>)), EmbedOk(Vector(<<One, One>>))}

\* the topK of a call
MaxTopK == 2

(***************************************************************************)
(* Calls of the catalog in flight: loadCatalogEmbeddings(force) and        *)
(* matchCanonicalByEmbedding(text, topK), each cut at its await.           *)
(***************************************************************************)
MaxCallers == 2

Callers == 1..MaxCallers

\* the clock stops at MaxClock ticks and the store answers MaxQueries times
MaxClock == 3

MaxQueries == 2

NoOutcome == [st |-> "none", v |-> <<>>]

Raised == [st |-> "raised", v |-> <<>>]

Returned(v) == [st |-> "returned", v |-> v]

\* a caller that awaits nothing
IdleCall == [at |-> "idle", op |-> "none", force |-> FALSE, topK |-> 0]

\* a call that found the cache not fresh and awaits the store
AwaitingStore(op, force, topK) ==
    [at |-> "query", op |-> op, force |-> force, topK |-> topK]

\* the rows before the first row whose embedding does not parse
ParsedPrefix(rows) ==
    LET bad == {i \in DOMAIN rows : parseEmbeddingThrows(rows[i].embedding_json)}
    IN SubSeq(rows, 1, (CHOOSE i \in bad : \A o \in bad : i <= o) - 1)

\* a load that keeps the rows it parsed before the row that failed
LoadOutcomePartial(answer) ==
    IF answer.st = "failed" THEN Raised
    ELSE IF RowsThrow(answer.rows) THEN Returned(ParseRows(ParsedPrefix(answer.rows)))
    ELSE Returned(ParseRows(answer.rows))

\* what loadCatalogEmbeddings returns for an answer of the store
\* (catalog.service.ts:74-87)
LoadOutcome(answer) ==
    IF answer.st = "failed" \/ RowsThrow(answer.rows) THEN Raised
    ELSE Returned(ParseRows(answer.rows))

\* a call that returned: what the store answered it (nothing when the cache
\* served it), the catalog its load returned, the embedding of its text and
\* what it returned
Return(c, call, answer, catalog, qEmb, out) ==
    [caller |-> c, op |-> call.op, force |-> call.force, topK |-> call.topK,
     answer |-> answer, catalog |-> catalog, qEmb |-> qEmb, out |-> out]

\* what matchCanonicalByEmbedding returns for a catalog and an embedding
\* (Promise.all rejects when one of the two does)
RankedOrRaised(catalog, e, topK) ==
    IF catalog.st = "raised" \/ e.st = "failed" THEN {Raised}
    ELSE {Returned(r) : r \in RankOutcomes(catalog.v, e.emb, topK)}

\* the ends of a call whose load ended with catalog: a load returns it, a
\* match joins it with the embedding of the text and ranks
Ends(c, call, answer, catalog) ==
    IF call.op = "load"
    THEN {Return(c, call, answer, catalog, NoOutcome, catalog)}
    ELSE UNION {{Return(c, call, answer, catalog,
                        IF e.st = "ok" THEN Returned(e.emb) ELSE Raised, out) :
                    out \in RankedOrRaised(catalog, e, call.topK)} :
                e \in EmbedOutcomes}

\* no query in flight, no rows held
NoQueries == [of |-> [c \in Callers |-> 0], held |-> 0]

InitCatalog ==
    /\ cache = None
    /\ clock = 0
    /\ queried = 0
    /\ issued = NoQueries
    /\ loading = [c \in Callers |-> IdleCall]
    /\ returned = None
    /\ cosine = None

(***************************************************************************)
(* What the cache may hold when the process starts: nothing, or a record   *)
(* written by something else (an earlier version of the service, an        *)
(* operator, a corrupted write).                                           *)
(***************************************************************************)
OldVehicle == Vehicle(<<"9", "9", "9", "9", "Z", "Z", "Z">>, Some(5))

OldMsg(role) == Msg(role, Content("[texto]", TxtHola), 0)

TruthyBlob == JsonBlob("truthy", MkSession(<<>>, Some(OldVehicle), None, Undef, None))

FalsyBlob == JsonBlob("falsy", MkSession(<<>>, Some(OldVehicle), None, Undef, None))

LongBlob ==
    JsonBlob("list",
             MkSession(<<OldMsg("user"), OldMsg("system"), NullEntry,
                         OldMsg("assistant"), OldMsg("user"), OldMsg("assistant"),
                         OldMsg("user")>>,
                       None, None, Undef, None))

\* whose record holds which blob
ForeignRecords ==
    { <<TenantA, ConvA, LongBlob>>, <<TenantB, ConvA, FalsyBlob>>,
      <<TenantB, ConvB, InvalidBlob>>, <<TenantA, ConvTwo, NullBlob>>,
      <<TenantB, ConvTwo, TruthyBlob>> }

InitialStore ==
    [k \in {sessionKey(o[1], o[2]) : o \in ForeignRecords} |->
        Record((CHOOSE o \in ForeignRecords : sessionKey(o[1], o[2]) = k)[3],
               TTL_SECONDS)]

(***************************************************************************)
(* The handler of POST /webhook/aimotive/inbound (webhook.ts:330-530), one *)
(* action for each stretch between two awaits.                             *)
(***************************************************************************)
Slots == {1, 2}

NoAck == [status |-> 0]

\* reply.code(200).send({ ok: true, ignored: true })
AckIgnored == [status |-> 200, ok |-> TRUE, ignored |-> TRUE]

\* reply.code(200).send({ ok: true })
AckProcessed == [status |-> 200, ok |-> TRUE, ignored |-> FALSE]

\* the answer of the framework for an exception that left the handler
AckError == [status |-> 500, ok |-> FALSE, ignored |-> FALSE]

NoContent == Content("", <<>>)

Inbound(d) == normalized[d].ev

Key(d) == sessionKey(Inbound(d).instance, Inbound(d).conversation)

\* a body in each of its encodings, and what the normalizers made of those
\* tried so far
Encodings ==
    { [shape |-> sh, eq |-> FALSE] :
        sh \in {"nullish", "null", "string", "direct", "key", "splitkey", "brokenkey",
                "jsonstring", "escstring"} }
      \cup { [shape |-> sh, eq |-> TRUE] : sh \in {"jsonstring", "escstring"} }

NoBody == [p |-> TextPayload(<<>>, <<>>, <<>>), amz |-> "none", wrap |-> FALSE]

NoResults == [e \in Encodings |-> None]

InitPipeline ==
    /\ pc = [d \in Slots |-> "idle"]
    /\ stalled = {}
    /\ normalized = [d \in Slots |-> NullResult]
    /\ session = [d \in Slots |-> FreshSession]
    /\ userContent = [d \in Slots |-> NoContent]
    /\ responseText = [d \in Slots |-> NoContent]
    /\ decision = [d \in Slots |-> NoDecision]
    /\ ack = [d \in Slots |-> NoAck]
    /\ calls = [d \in Slots |-> <<>>]
    /\ outbound = [d \in Slots |-> None]
    /\ store = InitialStore
    /\ now = 0
    /\ turns = 0
    /\ faults = 0

\* no service has been run on its own
InitServices ==
    /\ offered = <<>>
    /\ selection = None
    /\ InitCatalog
    /\ detection = None

Init ==
    /\ InitPipeline
    /\ InitServices
    /\ nraw = NoBody
    /\ nres = NoResults

\* a collaborator call fails, if the run has failures left
Fails(failed) ==
    /\ failed => faults < MaxFaults
    /\ faults' = IF failed THEN faults + 1 ELSE faults

\* an exception leaves the handler
Thrown(d) ==
    /\ pc' = [pc EXCEPT ![d] = "done"]
    /\ ack' = [ack EXCEPT ![d] = AckError]

\* a handler that reads the cache before it validates
ReceiveReadingFirst(d, bodies) ==
    /\ pc[d] = "idle"
    /\ turns < MaxTurns
    /\ turns' = turns + 1
    /\ \E raw \in bodies :
          LET n == normalizeInbound(raw)
          IN /\ normalized' = [normalized EXCEPT ![d] = n]
             /\ calls' = [calls EXCEPT ![d] = <<Call("redis.get", TRUE)>>]
             /\ IF n.kind = "raise" THEN Thrown(d)
                ELSE IF n.kind = "null" \/ ~SchemaOk(n.ev)
                THEN /\ pc' = [pc EXCEPT ![d] = "done"]
                     /\ ack' = [ack EXCEPT ![d] = AckIgnored]
                ELSE /\ pc' = [pc EXCEPT ![d] = "load"]
                     /\ ack' = ack
    /\ UNCHANGED <<session, userContent, responseText, decision, outbound,
                   store, now, faults, nraw, nres, serviceVars, stalled>>

\* normalizeInbound, safeParse, sessionKey; redis.get is issued.  bodies are
\* the request bodies the senders deliver
ReceiveFrom(d, bodies) ==
    /\ pc[d] = "idle"
    /\ turns < MaxTurns
    /\ turns' = turns + 1
    /\ \E raw \in bodies :
          LET n == normalizeInbound(raw)
          IN /\ normalized' = [normalized EXCEPT ![d] = n]
             /\ IF n.kind = "raise" THEN Thrown(d)
                ELSE IF n.kind = "null" \/ ~SchemaOk(n.ev)
                THEN /\ pc' = [pc EXCEPT ![d] = "done"]
                     /\ ack' = [ack EXCEPT ![d] = AckIgnored]
                ELSE /\ pc' = [pc EXCEPT ![d] = "load"]
                     /\ ack' = ack
    /\ UNCHANGED <<session, userContent, responseText, decision, calls, outbound,
                   store, now, faults, nraw, nres, serviceVars, stalled>>

Receive(d) == ReceiveFrom(d, PipelineBodies)

\* redis.get answers; loadSession returns; buildUserContent starts
Load(d) ==
    /\ pc[d] = "load"
    /\ \E get \in {RedisGet(store, Key(d), now), Fault} :
          LET r == loadSession(get)
          IN /\ Fails(get.st = "fault")
             /\ calls' = [calls EXCEPT ![d] =
                            Append(@, CacheCall("redis.get", Key(d), get.st # "fault"))]
             /\ session' = [session EXCEPT ![d] = r.s]
             /\ IF r.raised THEN Thrown(d)
                ELSE /\ pc' = [pc EXCEPT ![d] = "content"]
                     /\ ack' = ack
    /\ UNCHANGED <<normalized, userContent, responseText, decision, outbound,
                   store, now, turns, nraw, nres, serviceVars, stalled>>

\* buildUserContent returns; the vehicle lookup starts
BuildContent(d) ==
    /\ pc[d] = "content"
    /\ \E out \in ProviderOutcomes(Inbound(d)) :
          LET r == buildUserContent(Inbound(d), out)
          IN /\ Fails(r.called # <<>> /\ out.st # "ok")
             /\ calls' = [calls EXCEPT ![d] = @ \o r.called]
             /\ userContent' = [userContent EXCEPT ![d] = r.content]
             /\ IF r.raised THEN Thrown(d)
                ELSE /\ pc' = [pc EXCEPT ![d] = "vehicle"]
                     /\ ack' = ack
    /\ UNCHANGED <<normalized, session, responseText, decision, outbound,
                   store, now, turns, nraw, nres, serviceVars, stalled>>

\* the text the services read: the wording and the text it embeds
ContentText(c) == c.txt

\* maybeCacheVehicleFromText returns; the catalog match starts
ResolveVehicle(d) ==
    /\ pc[d] = "vehicle"
    /\ \E out \in LookupOutcomes(ContentText(userContent[d])) :
          LET r == maybeCacheVehicleFromText(ContentText(userContent[d]), session[d], out)
          IN /\ Fails(r.called # <<>> /\ out.st # "ok")
             /\ calls' = [calls EXCEPT ![d] = @ \o r.called]
             /\ session' = [session EXCEPT ![d] = r.s]
             /\ IF r.raised THEN Thrown(d)
                ELSE /\ pc' = [pc EXCEPT ![d] = "match"]
                     /\ ack' = ack
    /\ UNCHANGED <<normalized, userContent, responseText, decision, outbound,
                   store, now, turns, nraw, nres, serviceVars, stalled>>

\* matchCanonicalByEmbedding returns; the product fetch starts
MatchCatalog(d) ==
    /\ pc[d] = "match"
    /\ \E out \in MatchOutcomes(ContentText(userContent[d])) :
          LET r == matchStage(session[d], out)
          IN /\ Fails(r.called # <<>> /\ out.st # "ok")
             /\ calls' = [calls EXCEPT ![d] = @ \o r.called]
             /\ session' = [session EXCEPT ![d] = r.s]
             /\ IF r.raised THEN Thrown(d)
                ELSE /\ pc' = [pc EXCEPT ![d] = "products"]
                     /\ ack' = ack
    /\ UNCHANGED <<normalized, userContent, responseText, decision, outbound,
                   store, now, turns, nraw, nres, serviceVars, stalled>>

\* the product stage ends; the user message is appended; the decision is
\* assembled and the generator is called
SelectProduct(d) ==
    /\ pc[d] = "products"
    /\ \E out \in ProductOutcomes(session[d]) :
          LET r == productStage(session[d], out)
              s1 == [r.s EXCEPT !.messages =
                        appendMessage(@, Msg("user", userContent[d], now))]
          IN /\ Fails(r.called # <<>> /\ out.st # "ok")
             /\ calls' = [calls EXCEPT ![d] = @ \o r.called]
             /\ IF r.raised
                THEN /\ Thrown(d)
                     /\ session' = [session EXCEPT ![d] = r.s]
                     /\ decision' = decision
                ELSE /\ session' = [session EXCEPT ![d] = s1]
                     /\ decision' = [decision EXCEPT ![d] = Decision(s1)]
                     /\ pc' = [pc EXCEPT ![d] = "generate"]
                     /\ ack' = ack
    /\ UNCHANGED <<normalized, userContent, responseText, outbound,
                   store, now, turns, nraw, nres, serviceVars, stalled>>

\* the generator returns; the assistant message is appended; redis.set is
\* issued
Generate(d) ==
    /\ pc[d] = "generate"
    /\ \E out \in GenerateOutcomes :
          LET r == generateStage(out)
          IN /\ Fails(r.called # <<>> /\ out.st # "ok")
             /\ calls' = [calls EXCEPT ![d] = @ \o r.called]
             /\ responseText' = [responseText EXCEPT ![d] = r.text]
             /\ IF r.raised
                THEN /\ Thrown(d)
                     /\ session' = session
                ELSE /\ session' = [session EXCEPT ![d].messages =
                                      appendMessage(@, Msg("assistant", r.text, now))]
                     /\ pc' = [pc EXCEPT ![d] = "save"]
                     /\ ack' = ack
    /\ UNCHANGED <<normalized, userContent, decision, outbound,
                   store, now, turns, nraw, nres, serviceVars, stalled>>

\* redis.set answers; saveSession returns; the outbound send starts
Save(d) ==
    /\ pc[d] = "save"
    /\ \E ok \in BOOLEAN :
          LET r == saveSession(store, Key(d), session[d], now, ok)
          IN /\ Fails(~ok)
             /\ calls' = [calls EXCEPT ![d] =
                            Append(@, CacheCall("redis.set", Key(d), ok))]
             /\ store' = r.st
             /\ IF r.raised THEN Thrown(d)
                ELSE /\ pc' = [pc EXCEPT ![d] = "send"]
                     /\ ack' = ack
    /\ UNCHANGED <<normalized, session, userContent, responseText, decision,
                   outbound, now, turns, nraw, nres, serviceVars, stalled>>

\* sendConversationMessage returns; the handler acknowledges
Send(d) ==
    /\ pc[d] = "send"
    /\ \E ok \in BOOLEAN :
          /\ Fails(~ok)
          /\ calls' = [calls EXCEPT ![d] = Append(@, Call("sendConversationMessage", ok))]
          /\ outbound' = [outbound EXCEPT ![d] =
                Some([instanceId |-> Inbound(d).instance,
                      conversationId |->
                          normalizeConversationIdForOutbound(Inbound(d).conversation),
                      message |-> responseText[d]])]
          /\ IF ~ok /\ catchSend(TRUE) THEN Thrown(d)
             ELSE /\ pc' = [pc EXCEPT ![d] = "done"]
                  /\ ack' = [ack EXCEPT ![d] = AckProcessed]
    /\ UNCHANGED <<normalized, session, userContent, responseText, decision,
                   store, now, turns, nraw, nres, serviceVars, stalled>>

\* the request is over: its objects are gone
Forget(d) ==
    /\ pc[d] = "done"
    /\ pc' = [pc EXCEPT ![d] = "idle"]
    /\ normalized' = [normalized EXCEPT ![d] = NullResult]
    /\ session' = [session EXCEPT ![d] = FreshSession]
    /\ userContent' = [userContent EXCEPT ![d] = NoContent]
    /\ responseText' = [responseText EXCEPT ![d] = NoContent]
    /\ decision' = [decision EXCEPT ![d] = NoDecision]
    /\ ack' = [ack EXCEPT ![d] = NoAck]
    /\ calls' = [calls EXCEPT ![d] = <<>>]
    /\ outbound' = [outbound EXCEPT ![d] = None]
    /\ UNCHANGED <<store, now, turns, faults, nraw, nres, serviceVars, stalled>>

\* a second passes between two deliveries
Tick ==
    /\ pc[1] = "idle"
    /\ now < MaxTime
    /\ now' = now + 1
    /\ UNCHANGED <<pc, normalized, session, userContent, responseText, decision,
                   ack, calls, outbound, store, turns, faults, nraw, nres, serviceVars, stalled>>

Step(d) ==
    \/ Receive(d)
    \/ Load(d)
    \/ BuildContent(d)
    \/ ResolveVehicle(d)
    \/ MatchCatalog(d)
    \/ SelectProduct(d)
    \/ Generate(d)
    \/ Save(d)
    \/ Send(d)
    \/ Forget(d)

\* one delivery at a time
Next == Step(1) \/ Tick

Spec == Init /\ [][Next]_vars

(***************************************************************************)
(* Two deliveries of one conversation in flight at once: the handler is    *)
(* async, so a second request runs between any two awaits of the first.    *)
(***************************************************************************)
\* two messages of one chat, one of them from a linked device
RaceBodies ==
    { AsKey(TextPayload(TenantA, ConvA7, TxtPadded)),
      AsKey(TextPayload(TenantA, ConvA, TxtQuote)) }

ReceiveRace(d) == ReceiveFrom(d, RaceBodies)

StepRace(d) ==
    \/ ReceiveRace(d)
    \/ Load(d)
    \/ BuildContent(d)
    \/ ResolveVehicle(d)
    \/ MatchCatalog(d)
    \/ SelectProduct(d)
    \/ Generate(d)
    \/ Save(d)
    \/ Send(d)
    \/ Forget(d)

NextRace == \E d \in Slots : StepRace(d)

SpecRace == Init /\ [][NextRace]_vars

(***************************************************************************)
(* The normalizers alone: a logical event, delivered in one encoding after *)
(* another.                                                                *)
(***************************************************************************)
\* encodings of one event that are compared
MaxEncodings == 3

NormPayloads ==
    { TextPayload(TenantA, ConvA, TxtHola),
      TextPayload(TenantA, ConvA, TxtQuote),
      TextPayload(TenantA, ConvA, TxtBackslash),
      TextPayload(<<>>, ConvA, TxtHola),
      Payload(TenantA, ConvA, TxtHola, "num", "none", "none", "none", TRUE, None),
      Payload(TenantA, ConvA, <<>>, "ptt", "none", "none", "none", TRUE, None),
      AudioPayload(TenantA, ConvA, "plain", TRUE),
      AudioPayload(TenantA, ConvA, "escaped", FALSE),
      AudioPayload(TenantA, ConvA, "signed", TRUE),
      ImagePayload(TenantA, ConvA, "plain", Some(TxtCaption)),
      Payload(TenantA, ConvA, <<>>, "none", "none", "plain", "image", TRUE, None),
      \* signals that disagree: type audio with an image mime type and url,
      \* type image with an audio mime type and url
      Payload(TenantA, ConvA, <<>>, "audio", "image", "plain", "image", TRUE, None),
      Payload(TenantA, ConvA, <<>>, "image", "audio", "plain", "audio", TRUE, None),
      \* an image with no url, sender id and message id known
      ImagePayload(TenantA, ConvA, "none", None) }

NormBodies ==
    { [p |-> p, amz |-> a, wrap |-> w] :
        p \in NormPayloads, a \in {"none", "strings", "nosig", "objects"},
        w \in BOOLEAN }

Encoded(body, e) == Raw(e.shape, e.eq, body.wrap, body.amz, body.p)

\* a result whose image event carries its caption as the text body too
CaptionAsText(r) ==
    IF r.kind = "event" /\ r.ev.type = "image" /\ r.ev.caption # None
    THEN EventResult([r.ev EXCEPT !.text = r.ev.caption])
    ELSE r

\* normalizers that return the caption of an image as its text
NormalizedCaptionAsText(raw) ==
    [route |-> CaptionAsText(normalizeInbound(raw)),
     skrit |-> CaptionAsText(normalizeSkritInbound(normalizeRaw(raw)))]

\* route: normalizeInbound; skrit: normalizeSkritInbound(normalizeRaw(body))
Normalized(raw) ==
    [route |-> normalizeInbound(raw),
     skrit |-> normalizeSkritInbound(normalizeRaw(raw))]

InitNorm ==
    /\ InitPipeline
    /\ InitServices
    /\ nraw \in NormBodies
    /\ nres = NoResults

Tried == {e \in Encodings : nres[e] # None}

Normalize(e) ==
    /\ nres[e] = None
    /\ Cardinality(Tried) < MaxEncodings
    /\ nres' = [nres EXCEPT ![e] = Some(Normalized(Encoded(nraw, e)))]
    /\ UNCHANGED <<pc, normalized, session, userContent, responseText, decision,
                   ack, calls, outbound, store, now, turns, faults, nraw, serviceVars, stalled>>

NextNorm == \E e \in Encodings : Normalize(e)

SpecNorm == InitNorm /\ [][NextNorm]_vars

(***************************************************************************)
(* The product selection alone: selectWinner and the product stage of the  *)
(* handler on one product list after another.                              *)
(***************************************************************************)
\* products in a list, for the lists that are tried in every order
MaxProducts == 3

\* no turnover
ProdD == Product("r1", "b2", None, Some(8), "true")

\* turnover 0, no price
ProdE == Product("r3", "b1", Some(0), None, "false")

\* ref and brand code of ProdA, no price
ProdF == Product("r1", "b1", Some(5), None, "true")

\* turnover and price of ProdB
ProdG == Product("r3", "b2", Some(5), Some(10), "false")

Shelves == {ProdA, ProdB, ProdC, ProdD, ProdE, ProdF, ProdG}

\* every list of up to MaxProducts products, and two lists with more
\* products than the alternatives hold
ProductLists ==
    UNION {[1..n -> Shelves] : n \in 0..MaxProducts}
      \cup { <<ProdA, ProdB, ProdC, ProdD, ProdE, ProdF, ProdG>>,
             <<ProdG, ProdE, ProdD, ProdB, ProdC, ProdA, ProdB>> }

\* a session with a vehicle and a best match, as the product stage finds it
SessionWithVehicle ==
    MkSession(<<>>, Some(Vehicle(cleanPlate(TxtPlate), Some(7))),
              Some(<<PartMatch(1, 90)>>), Undef, None)

InitSelect ==
    /\ InitPipeline
    /\ nraw = NoBody
    /\ nres = NoResults
    /\ offered \in ProductLists
    /\ selection = None
    /\ InitCatalog
    /\ detection = None

\* selectWinner(products), and the stage of the handler around it
Select ==
    /\ selection = None
    /\ offered' = selectWinner(offered).products
    /\ selection' =
          Some([winner |-> selectWinner(offered),
                stage |-> productStage(SessionWithVehicle, ProductsOk(offered)).s])
    /\ UNCHANGED <<pc, normalized, session, userContent, responseText, decision,
                   ack, calls, outbound, store, now, turns, faults, nraw, nres,
                   catalogVars, detection, stalled>>

NextSelect == Select

SpecSelect == InitSelect /\ [][NextSelect]_vars

(***************************************************************************)
(* The catalog on its own: callers load and match while the clock runs.    *)
(***************************************************************************)
pipelineVars ==
    <<pc, normalized, session, userContent, responseText, decision, ack, calls,
      outbound, store, now, turns, faults, nraw, nres, offered, selection,
      stalled>>

\* a call up to its first await: the cache answers, or the store is asked
Begin(c, op, force, topK) ==
    /\ loading[c].at = "idle"
    /\ IF ServedFromCache(force, cache, clock)
       THEN /\ \E end \in Ends(c, AwaitingStore(op, force, topK), NoOutcome,
                               Returned(cache[1].rows)) :
                  returned' = Some(end)
            /\ UNCHANGED <<queried, issued, loading>>
       ELSE /\ queried < MaxQueries
            /\ queried' = queried + 1
            /\ issued' = [issued EXCEPT !.of[c] = queried + 1]
            /\ loading' = [loading EXCEPT ![c] = AwaitingStore(op, force, topK)]
            /\ UNCHANGED returned
    /\ UNCHANGED <<cache, clock, cosine, detection, pipelineVars>>

\* loadCatalogEmbeddings(force)
CallLoad(c) == \E force \in BOOLEAN : Begin(c, "load", force, 0)

\* matchCanonicalByEmbedding(text, topK)
CallMatch(c) == \E topK \in 1..MaxTopK : Begin(c, "match", FALSE, topK)

\* the store answers a call: the rows are parsed and cached, or the call
\* raises
StoreAnswers(c) ==
    /\ loading[c].at = "query"
    /\ \E answer \in QueryOutcomes :
          /\ cache' = IF LoadOutcome(answer).st = "returned"
                      THEN Some(Snapshot(LoadOutcome(answer).v, clock))
                      ELSE cache
          /\ issued' = [of |-> [issued.of EXCEPT ![c] = 0],
                        held |-> IF LoadOutcome(answer).st = "returned"
                                 THEN issued.of[c] ELSE issued.held]
          /\ \E end \in Ends(c, loading[c],
                             IF answer.st = "ok" THEN Returned(answer.rows) ELSE Raised,
                             LoadOutcome(answer)) :
                returned' = Some(end)
    /\ loading' = [loading EXCEPT ![c] = IdleCall]
    /\ UNCHANGED <<clock, queried, cosine, detection, pipelineVars>>

\* Date.now() moves on
Advance ==
    /\ clock < MaxClock
    /\ clock' = clock + 1
    /\ UNCHANGED <<cache, queried, issued, loading, returned, cosine, detection,
                   pipelineVars>>

NextCatalog ==
    \/ \E c \in Callers : CallLoad(c)
    \/ \E c \in Callers : CallMatch(c)
    \/ \E c \in Callers : StoreAnswers(c)
    \/ Advance

SpecCatalog == Init /\ [][NextCatalog]_vars

(***************************************************************************)
(* cosineSim on its own, on every pair of vectors of up to two numbers     *)
(* taken from: 0, the smallest number, 1, -1 and the largest number.       *)
(***************************************************************************)
Components == {0, 1, One, -One, MaxFinite}

MaxDimension == 2

Vectors == UNION {{Vector(ms) : ms \in [1..n -> Components]} : n \in 0..MaxDimension}

InitCosine ==
    /\ InitPipeline
    /\ nraw = NoBody
    /\ nres = NoResults
    /\ offered = <<>>
    /\ selection = None
    /\ cache = None
    /\ clock = 0
    /\ queried = 0
    /\ issued = NoQueries
    /\ loading = [c \in Callers |-> IdleCall]
    /\ returned = None
    /\ detection = None
    /\ cosine \in {[a |-> a, b |-> b, score |-> None] : a, b \in Vectors}

\* cosineSim(a, b)
Score ==
    /\ cosine.score = None
    /\ cosine' = [cosine EXCEPT !.score = Some(cosineSim(cosine.a, cosine.b))]
    /\ UNCHANGED <<cache, clock, queried, issued, loading, returned, detection,
                   pipelineVars>>

NextCosine == Score

SpecCosine == InitCosine /\ [][NextCosine]_vars

(***************************************************************************)
(* Plate detection on its own: the handler's (aimotive.client.ts:96-143)   *)
(* and the evaluation script's (scripts/eval-family-match.ts:152-167).     *)
(* A letter with a mark, and the mark, are named by their code points.     *)
(***************************************************************************)
\* e with an acute accent, small and capital, and the combining acute accent
EAcute == "U+00E9"

CapitalEAcute == "U+00C9"

CombiningAcute == "U+0301"

\* c.normalize("NFD") of one character
Decompose(c) ==
    IF c = EAcute THEN <<"e", CombiningAcute>>
    ELSE IF c = CapitalEAcute THEN <<"E", CombiningAcute>>
    ELSE <<c>>

RECURSIVE NFD(_)
\* s.normalize("NFD")
NFD(s) == IF s = <<>> THEN <<>> ELSE Decompose(Head(s)) \o NFD(Tail(s))

\* not in [\u0300-\u036f]
NotCombiningMark(c) == c # CombiningAcute

\* s.normalize("NFD").replace(/[\u0300-\u036f]/g, "")
StripMarks(s) == SelectSeq(NFD(s), NotCombiningMark)

ToLower(c) ==
    IF c \in Range(UpperSeq)
    THEN LowerSeq[CHOOSE i \in 1..Len(UpperSeq) : UpperSeq[i] = c]
    ELSE IF c = CapitalEAcute THEN EAcute
    ELSE c

normalizeText(s) == [i \in 1..Len(StripMarks(s)) |-> ToLower(StripMarks(s)[i])]

\* t.match(re): m[0] of the leftmost match of a regular expression whose
\* match from s[i] ends before end[i], None without a match
MatchOf(s, end) ==
    IF \A i \in 1..Len(s) : end[i] = 0 THEN None
    ELSE LET i == CHOOSE m \in 1..Len(s) :
                      end[m] # 0 /\ \A o \in 1..(m - 1) : end[o] = 0
         IN Some(SubSeq(s, i, end[i] - 1))

\* t.match(/\b\d{4}\s*[a-z]{3}\b/i)
Grammar1Match(t) == MatchOf(t, [i \in 1..Len(t) |-> Grammar1End(t, i)])

\* t.match(/\b[a-z]{1,2}\s*\d{4}\s*[a-z]{0,2}\b/i)
Grammar2Match(t) == MatchOf(t, [i \in 1..Len(t) |-> Grammar2End(t, i)])

\* m[0].toUpperCase().replace(/\s+/g, ""), which is what cleanPlate does
UpperNoSpace(m) == IF m = None THEN None ELSE Some(cleanPlate(m[1]))

\* extractPlate(raw) of the script: the first grammar before the second
extractPlate(raw) ==
    IF Grammar1Match(normalizeText(raw)) # None
    THEN UpperNoSpace(Grammar1Match(normalizeText(raw)))
    ELSE UpperNoSpace(Grammar2Match(normalizeText(raw)))

\* the plate the handler detects in a text: cleanPlate(m[0]) of PLATE_RE
DetectedPlate(text) == UpperNoSpace(PlateMatch(text))

Gaps == {<<>>, <<" ">>, <<" ", "\t">>}

PlateLetters == {"b", "D", EAcute}

\* four digits, a gap, three letters
DigitsFirstTexts ==
    {<<"1", "2", "3", "4">> \o g \o <<a, b, c>> :
        g \in Gaps, a \in PlateLetters, b \in PlateLetters, c \in PlateLetters}

Leads == {<<"m">>, <<"M", "a">>, <<EAcute>>, <<"m", CapitalEAcute>>}

Trails == {<<>>, <<"z">>, <<"Z", "y">>, <<EAcute>>, <<"x", "y", "z">>}

\* one or two letters, a gap, four digits, a gap, up to two letters
LettersFirstTexts ==
    {l \o g \o <<"5", "6", "7", "8">> \o h \o t :
        l \in Leads, g \in {<<>>, <<" ">>}, h \in {<<>>, <<" ">>}, t \in Trails}

\* texts with no plate, and a plate inside a sentence
OtherTexts ==
    {TxtEmpty, TxtHola, TxtPlate, TxtPlate2,
     <<"1", "2", "3", " ", "b", "c", "d">>,
     <<"x", "1", "2", "3", "4", "b", "c", "d">>,
     <<"s", "i", " ">> \o TxtPlate \o <<" ", "o", "k">>}

PlateTexts == DigitsFirstTexts \cup LettersFirstTexts \cup OtherTexts

\* a session with no vehicle, and one with the vehicle of TxtPlate
PlateSessions ==
    {FreshSession,
     MkSession(<<>>, Some(Vehicle(cleanPlate(TxtPlate), Some(7))), None, Undef,
               None)}

InitPlate ==
    /\ InitPipeline
    /\ nraw = NoBody
    /\ nres = NoResults
    /\ offered = <<>>
    /\ selection = None
    /\ InitCatalog
    /\ detection \in {[text |-> t, sess |-> s, found |-> None] :
                         t \in PlateTexts, s \in PlateSessions}

\* maybeCacheVehicleFromText(text, session) of the handler, with the plate
\* its regular expression finds, and extractPlate(text) of the script
Detect ==
    /\ detection.found = None
    /\ \E out \in LookupOutcomes(detection.text) :
          detection' =
              [detection EXCEPT !.found =
                  Some([plate |-> DetectedPlate(detection.text),
                        turn |-> maybeCacheVehicleFromText(detection.text,
                                                           detection.sess, out),
                        script |-> extractPlate(detection.text)])]
    /\ UNCHANGED <<catalogVars, pipelineVars>>

NextPlate == Detect

SpecPlate == InitPlate /\ [][NextPlate]_vars

(***************************************************************************)
(* The handler with collaborators that may never answer.  A call made      *)
(* through a client with a timeout ends as a failure when the timeout      *)
(* expires; an await that nothing bounds keeps its delivery where it is.   *)
(***************************************************************************)
\* the calls made through aimotiveClient, built with timeout: 10000
\* (aimotive.client.ts:16-23)
BoundedCalls == {"searchByPlate", "productsByVehicle", "sendConversationMessage"}

\* the catalog match awaits mysqlPool.query and openai.embeddings.create:
\* the pool and the client are built without a timeout and the calls pass
\* none (lib/mysql.ts:3-11, catalog.service.ts:74-78, 91,
\* embeddings.service.ts:3-10), and webhook.ts:367 awaits it bare
UnboundedCalls == {"matchCanonicalByEmbedding"}

\* where a delivery is while it awaits a collaborator
AwaitOf(op) ==
    CASE op = "redis.get" -> "load"
      [] op \in {"transcribe", "describe"} -> "content"
      [] op = "searchByPlate" -> "vehicle"
      [] op = "matchCanonicalByEmbedding" -> "match"
      [] op = "productsByVehicle" -> "products"
      [] op = "generateReplyWithDecision" -> "generate"
      [] op = "redis.set" -> "save"
      [] op = "sendConversationMessage" -> "send"

\* the shortest of plates
TxtPlateShort == <<"m", "5", "6", "7", "8">>

\* a message with a plate, and a message of a sender that is ignored
AwaitBodies ==
    { AsKey(TextPayload(TenantA, ConvA, TxtPlateShort)),
      AsKey(TextPayload(TenantBad, ConvA, TxtHola)) }

ReceiveAwait(d) == ReceiveFrom(d, AwaitBodies)

\* the call a delivery awaits has settled and its handler runs on
Proceed(d) ==
    /\ d \notin stalled
    /\ \/ Load(d)
       \/ BuildContent(d)
       \/ ResolveVehicle(d)
       \/ MatchCatalog(d)
       \/ SelectProduct(d)
       \/ Generate(d)
       \/ Save(d)
       \/ Send(d)
       \/ Forget(d)

\* the collaborator a delivery awaits never answers, and no timeout ends
\* the await
NeverAnswers(d) ==
    /\ d \notin stalled
    /\ \E op \in UnboundedCalls : pc[d] = AwaitOf(op)
    /\ stalled' = stalled \cup {d}
    /\ UNCHANGED <<pc, normalized, session, userContent, responseText, decision,
                   ack, calls, outbound, store, now, turns, faults, nraw, nres,
                   serviceVars>>

\* one delivery at a time
NextAwait == ReceiveAwait(1) \/ Proceed(1) \/ NeverAnswers(1)

\* the event loop runs a handler whose awaited call has settled; nothing
\* makes a delivery arrive
SpecAwait == Init /\ [][NextAwait]_vars /\ WF_vars(Proceed(1))

(***************************************************************************)
(* Properties of the handler.                                              *)
(***************************************************************************)
Done(d) == pc[d] = "done"

\* the event of the delivery is one the validation accepts
Valid(d) ==
    /\ normalized[d].kind = "event"
    /\ IsUuid(normalized[d].ev.instance)
    /\ Len(normalized[d].ev.conversation) >= MinConversationLen
    /\ "@" \in Range(normalized[d].ev.conversation)
    /\ normalized[d].ev.type \in {"text", "audio", "image"}

HasCall(d, op) == \E i \in DOMAIN calls[d] : calls[d][i].op = op

FailedCall(d, op) == \E i \in DOMAIN calls[d] : calls[d][i].op = op /\ ~calls[d][i].ok

Last(seq) == seq[Len(seq)]

\* C1: every delivery that has ended was answered with status 200, with
\* {ok, ignored} when the event was ignored and {ok} when it was processed,
\* whatever the body and whichever collaborators failed.
C1_AlwaysAcknowledged ==
    \A d \in Slots :
        Done(d) => ack[d] = IF Valid(d) THEN AckProcessed ELSE AckIgnored

\* C2: a turn that passed validation is never aborted by a collaborator that
\* fails: when it ends, the user message and the assistant message are the
\* last two of the session, the save and the send were attempted and the
\* delivery was acknowledged with {ok}.
C2_FailuresCaught ==
    \A d \in Slots :
        Done(d) /\ Valid(d) =>
            LET m == session[d].messages
            IN /\ ack[d] = AckProcessed
               /\ Len(m) >= 2
               /\ m[Len(m) - 1].role = "user"
               /\ m[Len(m) - 1].content = userContent[d]
               /\ m[Len(m)].role = "assistant"
               /\ m[Len(m)].content = responseText[d]
               /\ HasCall(d, "redis.set")
               /\ HasCall(d, "sendConversationMessage")

\* a turn in which a collaborator failed ended acknowledged
C2_FailedCallSurvived ==
    \E d \in Slots :
        /\ Done(d)
        /\ ack[d] = AckProcessed
        /\ \E i \in DOMAIN calls[d] : ~calls[d][i].ok

\* C3: normalization never raises: for every body, in every encoding, each
\* normalizer returns an event or null.
C3_NeverRaises ==
    \A e \in Encodings :
        nres[e] # None =>
            /\ nres[e][1].route.kind # "raise"
            /\ nres[e][1].skrit.kind # "raise"

\* C4: a delivery goes past validation (cache, collaborators, outbound send,
\* {ok}) only with an event whose tenant id is a UUID, whose conversation id
\* has an '@' and at least 8 characters and whose type is text, audio or
\* image; a delivery whose event breaks one of these ends ignored, with 200.
C4_OnlyValidProcessed ==
    \A d \in Slots :
        /\ \/ pc[d] \notin {"idle", "done"}
           \/ calls[d] # <<>>
           \/ outbound[d] # None
           \/ ack[d] = AckProcessed
           => Valid(d)
        /\ Done(d) /\ normalized[d].kind = "event" /\ ~Valid(d)
           => ack[d] = AckIgnored /\ calls[d] = <<>> /\ outbound[d] = None

\* an event whose tenant id is no UUID was ignored
C4_InvalidTenantIgnored ==
    \E d \in Slots :
        /\ Done(d)
        /\ normalized[d].kind = "event"
        /\ ~IsUuid(normalized[d].ev.instance)
        /\ ack[d] = AckIgnored

\* the fields of an event that are compared
EventFields(r) ==
    IF r.kind = "event"
    THEN [kind |-> "event", instance |-> r.ev.instance,
          conversation |-> r.ev.conversation, type |-> r.ev.type,
          text |-> r.ev.text, mediaUrl |-> r.ev.mediaUrl]
    ELSE [kind |-> r.kind]

DirectObject == [shape |-> "direct", eq |-> FALSE]

JsonKey == [shape |-> "key", eq |-> FALSE]

EscapedString == [shape |-> "escstring", eq |-> TRUE]

\* C5: one event sent as a direct object, as a JSON key with an empty value
\* and as a twice-escaped JSON string that starts with '=' normalizes to the
\* same tenant id, conversation id, type, text and media url.
C5_SameEvent ==
    nraw.amz = "none" /\ ~nraw.wrap =>
        \A e1, e2 \in {DirectObject, JsonKey, EscapedString} :
            nres[e1] # None /\ nres[e2] # None =>
                /\ EventFields(nres[e1][1].route) = EventFields(nres[e2][1].route)
                /\ EventFields(nres[e1][1].skrit) = EventFields(nres[e2][1].skrit)

\* the load of the delivery has returned and nothing has touched the session
\* or the cache since
Loaded(d) == pc[d] = "content"

\* the cache answered the load with the record that is live under the key
Hit(d) == calls[d][1].ok /\ Live(store, calls[d][1].key, now)

LoadedBlob(d) == store[calls[d][1].key].blob

\* C6 (as stated): after a miss, a read fault, or a hit on a blob that is no
\* JSON, is the JSON null or has messages that are no list, the session is
\* fresh: no messages, no vehicle, no matches, no product.
C6_FreshOnBadBlob ==
    \A d \in Slots :
        /\ Loaded(d)
        /\ \/ ~Hit(d)
           \/ LoadedBlob(d).kind \in {"invalid", "null"}
           \/ LoadedBlob(d).shape \in {"truthy", "falsy"}
        => session[d] = FreshSession

\* C6 (amended): the load never ends the delivery, and it returns a fresh
\* session after a miss, a read fault, or a hit on a blob that is no JSON, is
\* the JSON null, or has messages that are a value other than a list and
\* other than missing, null, 0 or ""; a stored object whose messages are
\* missing, null, 0 or "" comes back with an empty message list and with its
\* other stored fields.
C6_LoadRepairs ==
    \A d \in Slots :
        /\ Done(d) /\ calls[d] # <<>> => Len(calls[d]) > 1
        /\ Loaded(d) =>
              IF ~Hit(d) THEN session[d] = FreshSession
              ELSE IF LoadedBlob(d).kind \in {"invalid", "null"}
              THEN session[d] = FreshSession
              ELSE IF LoadedBlob(d).shape = "truthy" THEN session[d] = FreshSession
              ELSE IF LoadedBlob(d).shape = "falsy"
              THEN session[d] = [LoadedBlob(d).doc EXCEPT !.messages = <<>>]
              ELSE \A i \in DOMAIN session[d].messages :
                      session[d].messages[i].role \in {"user", "assistant"}

\* a blob that is no JSON was read and the session is fresh
C6_InvalidBlobFresh ==
    \E d \in Slots :
        /\ Loaded(d)
        /\ Hit(d)
        /\ LoadedBlob(d).kind = "invalid"
        /\ session[d] = FreshSession

\* C7: a cache write that fails changes nothing in the cache and the handler
\* goes on to the send; the delivery of a turn whose save failed ends with
\* the reply handed to the sender and {ok}.
C7_SaveBestEffort ==
    /\ [][\A d \in Slots :
            pc[d] = "save" /\ pc'[d] # "save" /\ ~Last(calls'[d]).ok
                => store' = store /\ pc'[d] = "send"]_vars
    /\ [](\A d \in Slots :
            Done(d) /\ FailedCall(d, "redis.set")
                => /\ ack[d] = AckProcessed
                   /\ HasCall(d, "sendConversationMessage")
                   /\ outbound[d] # None
                   /\ outbound[d][1].message = responseText[d])

\* a turn whose save failed was acknowledged
C7_FailedSaveAcked ==
    \E d \in Slots :
        Done(d) /\ FailedCall(d, "redis.set") /\ ack[d] = AckProcessed

\* C8: each append leaves the last MAX_MESSAGES entries of the previous list
\* followed by the new message, and a session that is saved has at most
\* MAX_MESSAGES messages, whatever the length of the list that was loaded.
C8_AppendKeepsLastN ==
    [][\A d \in Slots :
          /\ pc[d] = "products" /\ pc'[d] = "generate"
             => session'[d].messages =
                   SliceLast(Append(session[d].messages,
                                    Msg("user", userContent[d], now)),
                             MAX_MESSAGES)
          /\ pc[d] = "generate" /\ pc'[d] = "save"
             => session'[d].messages =
                   SliceLast(Append(session[d].messages,
                                    Msg("assistant", responseText'[d], now)),
                             MAX_MESSAGES)
          /\ pc[d] = "save" /\ pc'[d] = "send" /\ Last(calls'[d]).ok
             => /\ store'[Key(d)].blob.doc.messages = session[d].messages
                /\ Len(store'[Key(d)].blob.doc.messages) <= MAX_MESSAGES]_vars

\* a list loaded from the cache lost its oldest entries to the appends
C8_OldestEvicted ==
    \E d \in Slots :
        /\ pc[d] = "save"
        /\ calls[d][1].ok
        /\ Len(session[d].messages) = MAX_MESSAGES
        /\ session[d].messages[1] = OldMsg("user")
        /\ session[d].messages[MAX_MESSAGES].role = "assistant"

\* a blob that a save wrote: its messages are user and assistant messages
SavedBlob(blob) ==
    /\ blob.kind = "json"
    /\ blob.shape = "list"
    /\ \A i \in DOMAIN blob.doc.messages :
          blob.doc.messages[i].role \in {"user", "assistant"}

\* C9: a save that succeeds stores the session with an expiry of the full
\* TTL after now; no step removes a record; a load answered by the cache
\* returns the saved messages before the expiry of the record and a fresh
\* session from the expiry on.
C9_SlidingTtl ==
    /\ [][/\ \A d \in Slots :
                pc[d] = "save" /\ pc'[d] = "send" /\ Last(calls'[d]).ok
                    => store'[Key(d)] =
                          Record(JsonBlob("list", session[d]), now + TTL_SECONDS)
          /\ DOMAIN store \subseteq DOMAIN store']_vars
    /\ [](\A d \in Slots :
            /\ Loaded(d)
            /\ calls[d][1].ok
            /\ calls[d][1].key \in DOMAIN store
            /\ SavedBlob(LoadedBlob(d))
            => IF now < store[calls[d][1].key].exp
               THEN session[d].messages = LoadedBlob(d).doc.messages
               ELSE session[d] = FreshSession)

\* a saved session with messages was read at or after its expiry, and the
\* session is fresh
C9_ExpiredSessionFresh ==
    \E d \in Slots :
        /\ Loaded(d)
        /\ calls[d][1].ok
        /\ calls[d][1].key \in DOMAIN store
        /\ SavedBlob(LoadedBlob(d))
        /\ LoadedBlob(d).doc.messages # <<>>
        /\ now >= store[calls[d][1].key].exp
        /\ session[d] = FreshSession

\* tenants and conversation ids (with at most one ':digits' group before
\* the '@'), each with its key and its conversation id without the suffix
KeyOwners ==
    { [tenant |-> t, key |-> sessionKey(t, c),
       stripped |-> normalizeConversationIdForOutbound(c)] :
        t \in {TenantA, TenantB}, c \in {ConvA, ConvA7, ConvA12, ConvB, ConvB7} }

\* C10: the key of every cache call of a delivery is the key of a tenant and
\* a conversation id exactly when the tenant is the one of the delivery and
\* the two conversation ids are the same once the ':digits' suffix before the
\* '@' is removed.
C10_KeyOfTenantAndConversation ==
    \A d \in Slots :
        calls[d] # <<>> =>
            LET tenant == normalized[d].ev.instance
                stripped == normalizeConversationIdForOutbound(
                                normalized[d].ev.conversation)
            IN \A i \in DOMAIN calls[d] :
                  calls[d][i].op \in {"redis.get", "redis.set"} =>
                      \A o \in KeyOwners :
                          calls[d][i].key = o.key
                          <=> tenant = o.tenant /\ stripped = o.stripped

\* a delivery whose conversation id has a suffix loaded what a delivery of
\* the same conversation without the suffix had saved
C10_SuffixSharesRecord ==
    \E d \in Slots :
        /\ Loaded(d)
        /\ normalized[d].ev.instance = TenantA
        /\ normalized[d].ev.conversation = ConvA7
        /\ \E i \in DOMAIN session[d].messages :
              session[d].messages[i] = Msg("user", Content("[texto]", TxtPlate), 0)

(***************************************************************************)
(* Two deliveries of one conversation.                                     *)
(***************************************************************************)
\* the delivery holds a loaded session and its save has not answered
InFlight(d) == pc[d] \in {"content", "vehicle", "match", "products", "generate", "save"}

Other(d) == 3 - d

\* the two deliveries are the first of the process, they are of one key and
\* each loaded before the other saved
Overlap == turns = 2 /\ InFlight(1) /\ InFlight(2) /\ Key(1) = Key(2)

\* redis.set of the delivery has answered OK
SavedOk(d) ==
    /\ pc[d] \in {"send", "done"}
    /\ \E i \in DOMAIN calls[d] : calls[d][i].op = "redis.set" /\ calls[d][i].ok

\* the messages the record of the conversation held before the two
RaceLoaded == ParseSession(InitialStore[sessionKey(TenantA, ConvA)].blob).messages

\* the session of a delivery that loaded the messages l, at its save
TurnOn(l, d) ==
    appendMessage(appendMessage(l, Msg("user", userContent[d], 0)),
                  Msg("assistant", responseText[d], 0))

\* the record is the session of delivery d, which is what d loaded and the
\* two messages of d: the text of the other delivery, when it is another
\* text, is in none of its messages
RecordOf(d) ==
    /\ store[Key(d)].blob = Stringify(session[d])
    /\ session[d].messages \in {TurnOn(RaceLoaded, d), TurnOn(<<>>, d)}
    /\ userContent[1] # userContent[2] =>
          \A i \in DOMAIN store[Key(d)].blob.doc.messages :
              store[Key(d)].blob.doc.messages[i].content # userContent[Other(d)]

\* C11: when two deliveries of one session key have both loaded before
\* either has saved, then once one of them has saved and later both have,
\* the stored record is exactly the session written by the later save: what
\* that delivery loaded and its own two messages, without the messages of the
\* delivery that saved first.
C11_LastWriteWins ==
    \A d \in Slots :
        [](Overlap =>
             [](turns = 2 /\ SavedOk(d) /\ InFlight(Other(d)) =>
                  [](turns = 2 /\ SavedOk(1) /\ SavedOk(2) => RecordOf(Other(d)))))

\* both deliveries loaded the record of the conversation, both saved, and
\* the record lacks the messages of the first delivery
C11_UpdateLost ==
    /\ turns = 2
    /\ SavedOk(1) /\ SavedOk(2)
    /\ session[1].messages = TurnOn(RaceLoaded, 1)
    /\ session[2].messages = TurnOn(RaceLoaded, 2)
    /\ RecordOf(2)
    /\ userContent[1] # userContent[2]

(***************************************************************************)
(* The decision handed to the generator.                                   *)
(***************************************************************************)
\* the decision of the delivery has been assembled
Decided(d) == decision[d] # NoDecision

\* C12: the clarification flag of a decision is true exactly when the turn
\* has no selected product, a best match exists and its score is strictly
\* below the threshold; at the threshold, with a selected product, or
\* without a best match it is false.
C12_ClarifyBelowThreshold ==
    \A d \in Slots :
        Decided(d) =>
            LET best == BestMatch(session[d])
                selected == session[d].selectedProduct.tag = "some"
                flag == decision[d].askOneClarifyingQuestion
            IN /\ flag <=> (~selected /\ best # None
                              /\ best[1].score < MATCH_THRESHOLD)
               /\ best # None /\ best[1].score = MATCH_THRESHOLD => ~flag
               /\ selected => ~flag
               /\ best = None => ~flag

\* a decision without a product whose best match is at the threshold
C12_AtThresholdNoQuestion ==
    \E d \in Slots :
        /\ Decided(d)
        /\ session[d].selectedProduct.tag # "some"
        /\ BestMatch(session[d]) # None
        /\ BestMatch(session[d])[1].score = MATCH_THRESHOLD
        /\ ~decision[d].askOneClarifyingQuestion

(***************************************************************************)
(* The product selection.                                                  *)
(***************************************************************************)
Selected == selection # None

\* the results of selectWinner for the offered list
Winner == selection[1].winner.selectedPart

Sorted == selection[1].winner.partsSorted

\* turnover with a missing one counted as 0
TurnoverOrZero(x) == IF x.turnover = None THEN 0 ELSE x.turnover[1]

\* the price of a is at most the price of b, a missing price being infinite
PriceAtMost(a, b) == b.price = None \/ (a.price # None /\ a.price[1] <= b.price[1])

Occurrences(seq, x) == Cardinality({i \in DOMAIN seq : seq[i] = x})

\* C13: the winner is the first entry of the sorted list whose availability
\* is true; without such an entry it is the first entry of the sorted list;
\* it is null exactly for an empty list.  Unknown availability is not
\* availability.
C13_WinnerFirstAvailable ==
    Selected =>
        LET avail == {i \in DOMAIN Sorted : Sorted[i].isAvailable = "true"}
        IN /\ avail # {} =>
                 /\ Winner.tag = "some"
                 /\ \E i \in avail : /\ Winner.v = Sorted[i]
                                     /\ \A j \in avail : i <= j
           /\ avail = {} /\ Sorted # <<>> => Winner = Val(Sorted[1])
           /\ Winner.tag # "some" <=> offered = <<>>

\* no product of the list is available and the winner is the first of the
\* sorted list, whose availability is unknown
C13_FallbackToFirst ==
    /\ Selected
    /\ Len(offered) > 1
    /\ \A i \in DOMAIN offered : offered[i].isAvailable # "true"
    /\ Winner = Val(Sorted[1])
    /\ Sorted[1].isAvailable = "unknown"
    /\ Sorted[1] # offered[1]

\* C14: the sorted list is a permutation of the input, ordered by turnover
\* descending (a missing turnover is 0) and, for equal turnover, by price
\* ascending with a missing price after every price; the input list is left
\* as it was.
C14_SortedByTurnoverThenPrice ==
    /\ [](Selected =>
            /\ Len(Sorted) = Len(offered)
            /\ \A x \in Shelves : Occurrences(Sorted, x) = Occurrences(offered, x)
            /\ \A i, j \in DOMAIN Sorted :
                  i < j =>
                     \/ TurnoverOrZero(Sorted[i]) > TurnoverOrZero(Sorted[j])
                     \/ /\ TurnoverOrZero(Sorted[i]) = TurnoverOrZero(Sorted[j])
                        /\ PriceAtMost(Sorted[i], Sorted[j]))
    /\ [][offered' = offered]_vars

\* a list that was not in order: a product without turnover and one without
\* price were moved behind the others
C14_MissingSortLast ==
    /\ Selected
    /\ offered = <<ProdD, ProdF, ProdB>>
    /\ Sorted = <<ProdB, ProdF, ProdD>>

\* the alternatives the stage stored in the session
StoredAlternatives == selection[1].stage.productAlternatives[1]

StoredWinner == selection[1].stage.selectedProduct

\* C15: the stored alternatives are the sorted list without every entry that
\* has both the ref and the brand code of the winner, in sorted order, cut to
\* the first four; an entry that shares only one of the two stays.
C15_AlternativesExcludeWinner ==
    Selected =>
        LET NotWinner(x) ==
                StoredWinner.tag = "some" =>
                    ~(x.ref = StoredWinner.v.ref
                        /\ x.brandCode = StoredWinner.v.brandCode)
            rest == SelectSeq(Sorted, NotWinner)
            kept == IF Len(rest) < 4 THEN Len(rest) ELSE 4
        IN /\ StoredWinner = Winner
           /\ StoredAlternatives = SubSeq(rest, 1, kept)
           /\ Len(StoredAlternatives) <= 4
           /\ \A i \in DOMAIN StoredAlternatives :
                 NotWinner(StoredAlternatives[i])

\* more than four products remain beside the winner, one of them with the
\* ref of the winner and another brand code: four are stored, that one
\* among them
C15_CappedKeepsSameRef ==
    /\ Selected
    /\ Len(Sorted) > 5
    /\ Len(StoredAlternatives) = 4
    /\ \E i \in DOMAIN StoredAlternatives :
          /\ StoredAlternatives[i].ref = StoredWinner.v.ref
          /\ StoredAlternatives[i].brandCode # StoredWinner.v.brandCode

(***************************************************************************)
(* Properties of the catalog.                                              *)
(***************************************************************************)
\* the call that returned last was a match that returned a list
Matched == returned # None /\ returned[1].op = "match" /\ returned[1].out.st = "returned"

\* a above b in the order of the numbers; NaN is above and below nothing
Above(a, b) ==
    /\ a.kind # "nan" /\ b.kind # "nan"
    /\ IF a.kind = "inf" THEN a.m > 0 /\ a # b
       ELSE IF b.kind = "inf" THEN b.m < 0
       ELSE a.m > b.m

Same(a, b) == a.kind # "nan" /\ a = b

PositionOf(catalog, id) == CHOOSE i \in DOMAIN catalog : catalog[i].id = id

MinOf(a, b) == IF a < b THEN a ELSE b

\* C16: a match returns min(topK, size of the catalog) entries, each a row
\* of the catalog its load returned, with scores that do not increase,
\* entries of equal score in the order of the catalog, and no row left out
\* that would sort before an entry.
C16_TopKByScore ==
    Matched =>
        LET list == returned[1].out.v
            catalog == returned[1].catalog.v
            At2(i) == PositionOf(catalog, list[i].id)
        IN /\ Len(list) = MinOf(returned[1].topK, Len(catalog))
           /\ \A i \in DOMAIN list : \E j \in DOMAIN catalog : catalog[j].id = list[i].id
           /\ \A i, j \in DOMAIN list :
                 i < j =>
                    \/ Above(list[i].score, list[j].score)
                    \/ Same(list[i].score, list[j].score) /\ At2(i) < At2(j)
           /\ \A i \in DOMAIN list, j \in DOMAIN catalog :
                 (\A k \in DOMAIN list : list[k].id # catalog[j].id) =>
                    \/ Above(list[i].score, cosineSim(returned[1].qEmb.v, catalog[j].emb))
                    \/ /\ Same(list[i].score, cosineSim(returned[1].qEmb.v, catalog[j].emb))
                       /\ At2(i) < j

\* the components of a vector are not all 0
NonZero(v) == \E i \in DOMAIN v : v[i] # Num(0)

\* the tolerance on a result, in smallest steps
Tolerance == 1

NearOne(x) == x.kind = "num" /\ Abs(x.m - One) <= Tolerance

\* C17: cosineSim is exactly 0 when the norm of either vector is 0, and for
\* a vector v whose components are not all 0, cosineSim(v, v) is 1 within
\* the tolerance.
C17_SelfSimilarityIsOne ==
    cosine.score # None =>
        /\ norm(cosine.a) = Num(0) \/ norm(cosine.b) = Num(0)
              => cosine.score[1] = Num(0)
        /\ cosine.a = cosine.b /\ NonZero(cosine.a) => NearOne(cosine.score[1])

\* the condition for asking the store: forced, nothing cached, or
\* the age of the snapshot has reached the window
Stale(force) == force \/ cache = None \/ clock - cache[1].loadedAt >= ttlMs

\* caller c found the cache not fresh and asked the store
Issued(c) == loading[c].at = "idle" /\ loading'[c].at = "query"

\* a call was served from the cache
Served == loading' = loading /\ returned' # returned

\* the store answered caller c
Answered(c) == loading[c].at = "query" /\ loading'[c].at = "idle"

\* a call asks the store exactly when its condition holds, and a call that
\* does not ask returns the cached rows and leaves store and cache alone
RefreshIffStale ==
    /\ \A c \in Callers :
          Issued(c) => Stale(loading'[c].force) /\ queried' = queried + 1
    /\ Served =>
          /\ ~Stale(returned'[1].force)
          /\ returned'[1].catalog = Returned(cache[1].rows)
          /\ returned'[1].answer = NoOutcome
          /\ queried' = queried
          /\ cache' = cache

\* the rows the store answered with
AnsweredRows == returned'[1].answer.v

\* C18 as stated: ..., and after a query that succeeded the cache holds the
\* rows of the answer, loaded at the time of the answer.
C18_RefreshedAfterQuery ==
    [][/\ RefreshIffStale
       /\ \A c \in Callers :
             Answered(c) /\ returned'[1].answer.st = "returned" =>
                /\ cache' # None
                /\ cache'[1].loadedAt = clock
                /\ Len(cache'[1].rows) = Len(AnsweredRows)
                /\ \A i \in DOMAIN AnsweredRows :
                      cache'[1].rows[i].id = AnsweredRows[i].id]_vars

\* C18, amended: the accessor asks the store if and only if the call is
\* forced, nothing is cached, or the age of the snapshot has reached the
\* window; otherwise it returns the cached rows and leaves the store alone.
\* After a query that succeeded and whose rows all hold a parseable
\* embedding the cache holds the parsed rows, loaded at the time of the
\* answer; after a query that failed or returned a row without one the call
\* raises and the cache is as it was.
C18_RefreshedAfterParsedQuery ==
    [][/\ RefreshIffStale
       /\ \A c \in Callers :
             Answered(c) =>
                /\ queried' = queried
                /\ IF returned'[1].answer.st = "returned" /\ ~RowsThrow(AnsweredRows)
                   THEN /\ cache' = Some(Snapshot(ParseRows(AnsweredRows), clock))
                        /\ returned'[1].catalog = Returned(cache'[1].rows)
                   ELSE /\ cache' = cache
                        /\ returned'[1].catalog = Raised]_vars

\* the store answered a refresh with a row that has no embedding: the call
\* raised and the cache still holds the older snapshot, past its window
C18_UnparsedAnswerKeepsSnapshot ==
    /\ returned # None
    /\ returned[1].answer = Returned(TableNull)
    /\ returned[1].out = Raised
    /\ cache # None
    /\ cache[1].rows = ParseRows(TableThree)
    /\ clock - cache[1].loadedAt >= ttlMs

(***************************************************************************)
(* Properties of the vehicle lookup.                                       *)
(***************************************************************************)
\* the plate in the content of delivery d, cleaned, or None
PlateOf(d) ==
    IF PlateMatch(ContentText(userContent[d])) = None THEN None
    ELSE Some(cleanPlate(PlateMatch(ContentText(userContent[d]))[1]))

\* the vehicles a lookup of the plate that succeeded leaves in a session
ResolvedFor(d) ==
    {maybeCacheVehicleFromText(ContentText(userContent[d]), FreshSession, out).s.vehicle :
        out \in LookupOutcomes(ContentText(userContent[d])) \ {LookupFailed}}

\* delivery d leaves the vehicle stage
Resolves(d) == pc[d] = "vehicle" /\ pc'[d] # "vehicle"

\* the step calls the directory for delivery d
LooksUp(d) == calls'[d] # calls[d]

\* C19: no lookup is made when the plate in the text is the plate of the
\* vehicle the session holds, nor when the session holds the vehicle that a
\* lookup of that plate left in it in an earlier turn.
C19_OneLookupPerPlate ==
    [][\A d \in Slots :
          /\ Resolves(d)
          /\ PlateOf(d) # None
          /\ session[d].vehicle # None
          /\ \/ session[d].vehicle[1].plate = PlateOf(d)[1]
             \/ session[d].vehicle \in ResolvedFor(d)
          => ~LooksUp(d)]_vars

\* C20: a lookup that fails leaves the session without a vehicle, whatever
\* the session held, and the turn goes on to the catalog match.
C20_FailedLookupUnsetsVehicle ==
    [][\A d \in Slots :
          Resolves(d) /\ calls'[d] = calls[d] \o <<Call("searchByPlate", FALSE)>>
          => session'[d].vehicle = None /\ pc'[d] = "match"]_vars

\* an accent is no obstacle: the handler finds in a text the plate it finds
\* in the text without its marks
FoundThroughMarks ==
    detection.found[1].plate = DetectedPlate(StripMarks(detection.text))

\* C21: plate detection recognizes both grammars whatever the case of the
\* letters, the white space inside and the accents on the letters, and
\* gives the plate in upper case without white space; a text without a
\* plate gives none, and no lookup and no change of the session.
C21_DetectsThroughAccents ==
    (detection # None /\ detection.found # None) =>
        /\ FoundThroughMarks
        /\ detection.found[1].plate = None =>
              /\ detection.found[1].turn.called = <<>>
              /\ detection.found[1].turn.s = detection.sess

\* C22: when the catalog match of a turn fails, the part matches of the turn
\* are empty: the decision handed to the generator carries no part,
\* whatever the session held before.
C22_FailedMatchNoPart ==
    \A d \in Slots :
        (Decided(d) /\ FailedCall(d, "matchCanonicalByEmbedding")) =>
            decision[d].part = None

\* the product stage of delivery d runs in this step
ProductStep(d) == pc[d] = "products" /\ pc'[d] = "generate"

\* the stage of this step called the product service and got a list
FetchedList(d) ==
    /\ calls'[d] # calls[d]
    /\ Last(calls'[d]).ok
    /\ session'[d].selectedProduct # Null

\* the winner and the alternatives of the list the product service holds for
\* the best match of the turn
WinnerNow(d) == selectWinner(Shelf(BestMatch(session[d])[1].id))

\* the selected product and the alternatives of the session as a decision
\* carries them
Carried(sess) ==
    [selectedProduct |-> IF sess.selectedProduct.tag = "some"
                         THEN Some(sess.selectedProduct.v) ELSE None,
     alternatives |-> IF sess.productAlternatives = Some(<<>>) THEN None
                      ELSE sess.productAlternatives]

\* C23: the selected product and the alternatives of a turn's decision are
\* computed in that turn: the product stage overwrites both on each of its
\* paths, with null and the empty list when it skips the selection or the
\* fetch fails, so that no product of an earlier turn reaches the generator.
C23_ProductOfThisTurn ==
    [][\A d \in Slots :
          ProductStep(d) =>
              /\ IF FetchedList(d)
                 THEN /\ session'[d].selectedProduct = WinnerNow(d).selectedPart
                      /\ session'[d].productAlternatives =
                            Some(Alternatives(WinnerNow(d).selectedPart,
                                              WinnerNow(d).partsSorted))
                 ELSE /\ session'[d].selectedProduct = Null
                      /\ session'[d].productAlternatives = Some(<<>>)
              /\ decision'[d].selectedProduct = Carried(session'[d]).selectedProduct
              /\ decision'[d].alternatives = Carried(session'[d]).alternatives]_vars

\* a turn skipped the selection, or its fetch failed, on a session that held
\* the product of an earlier turn, and its decision carries no product
C23_EarlierProductDropped ==
    \E d \in Slots :
        /\ pc[d] = "generate"
        /\ session[d].selectedProduct = Null
        /\ decision[d].selectedProduct = None
        /\ Hit(d)
        /\ LoadedBlob(d).kind = "json"
        /\ LoadedBlob(d).doc.selectedProduct.tag = "some"

\* the reply of delivery d has been made and appended
Replied(d) ==
    \/ pc[d] \in {"save", "send"}
    \/ pc[d] = "done" /\ ack[d] = AckProcessed

\* let responseText = "": the text before the generate stage, the empty string
EmptyText == Content("", <<>>)

\* C24: the reply text of a processed turn is never empty: it is the sorry
\* phrase when the generation failed and the blank phrase when the generator
\* returned the empty string; the assistant message appended to the session
\* and the message given to the outbound sender are that same text.
C24_ReplyNeverEmpty ==
    \A d \in Slots :
        Replied(d) =>
            /\ responseText[d] # EmptyText
            /\ responseText[d] \in {TextGenerated, TextBlank, TextSorry}
            /\ FailedCall(d, "generateReplyWithDecision") <=>
                  responseText[d] = TextSorry
            /\ session[d].messages # <<>>
            /\ Last(session[d].messages).role = "assistant"
            /\ Last(session[d].messages).content = responseText[d]
            /\ outbound[d] # None => outbound[d][1].message = responseText[d]

\* the generator returned the empty string and the blank phrase was sent
C24_BlankPhraseSent ==
    \E d \in Slots :
        /\ Replied(d)
        /\ responseText[d] = TextBlank
        /\ outbound[d] # None
        /\ outbound[d][1].message = TextBlank

\* the stages of the handler in the order of its text, by the collaborator
\* each of them calls
StageOf(op) ==
    CASE op = "redis.get" -> 1
      [] op \in {"transcribe", "describe"} -> 2
      [] op = "searchByPlate" -> 3
      [] op = "matchCanonicalByEmbedding" -> 4
      [] op = "productsByVehicle" -> 5
      [] op = "generateReplyWithDecision" -> 6
      [] op = "redis.set" -> 7
      [] op = "sendConversationMessage" -> 8

\* the positions of a delivery in the order of the handler's text
Positions ==
    <<"idle", "load", "content", "vehicle", "match", "products", "generate",
      "save", "send", "done">>

PositionAt(p) == CHOOSE i \in DOMAIN Positions : Positions[i] = p

\* the calls of a delivery were made in the order of the stages
CalledInOrder(d) ==
    \A i, j \in DOMAIN calls[d] :
        i < j => StageOf(calls[d][i].op) <= StageOf(calls[d][j].op)

\* the record under the key of delivery d is its session, reply included
ReplyRecorded(d) ==
    /\ Key(d) \in DOMAIN store
    /\ store[Key(d)].blob = Stringify(session[d])
    /\ Last(session[d].messages).role = "assistant"
    /\ Last(session[d].messages).content = responseText[d]

\* the save of delivery d was made and did not fail
SavedSession(d) == HasCall(d, "redis.set") /\ ~FailedCall(d, "redis.set")

\* a delivery moves to the next stage, or ends, or is forgotten
Forward(d) ==
    \/ PositionAt(pc'[d]) = PositionAt(pc[d]) + 1
    \/ pc'[d] = "done"
    \/ pc[d] = "done" /\ pc'[d] = "idle"

\* C25: the stages of a processed delivery run in one fixed order: normalize,
\* load, resolve vehicle, match catalog, select product, decide and
\* generate, save, send, acknowledge.  The session with the reply is saved
\* before the send is attempted, and a failed send leaves it recorded.
C25_FixedStageOrder ==
    /\ [](\A d \in Slots :
            /\ CalledInOrder(d)
            /\ ack[d] = AckProcessed => HasCall(d, "sendConversationMessage")
            /\ HasCall(d, "sendConversationMessage") => HasCall(d, "redis.set")
            /\ (pc[d] = "send" /\ SavedSession(d)) => ReplyRecorded(d)
            /\ (ack[d] = AckProcessed /\ SavedSession(d)) => ReplyRecorded(d))
    /\ [][\A d \in Slots : pc'[d] # pc[d] => Forward(d)]_vars

\* the send of a delivery failed and its reply is in the saved session
C25_FailedSendReplyRecorded ==
    \E d \in Slots :
        /\ ack[d] = AckProcessed
        /\ FailedCall(d, "sendConversationMessage")
        /\ SavedSession(d)
        /\ ReplyRecorded(d)

\* how many times delivery d has called the collaborator of a stage
TimesCalled(d, stage) ==
    Cardinality({i \in DOMAIN calls[d] : StageOf(calls[d][i].op) = stage})

\* C26: nothing is retried within a turn: during one delivery each
\* collaborator (cache get, cache set, directory lookup, catalog match,
\* product fetch, transcription or description, reply generation, outbound
\* send) is called at most once, whether the call succeeds or fails.
C26_NothingRetried ==
    \A d \in Slots : \A stage \in 1..8 : TimesCalled(d, stage) <= 1

\* a processed delivery whose catalog match and product fetch failed, each
\* called once
C26_FailedCallsNotRepeated ==
    \E d \in Slots :
        /\ ack[d] = AckProcessed
        /\ FailedCall(d, "matchCanonicalByEmbedding")
        /\ FailedCall(d, "productsByVehicle")
        /\ TimesCalled(d, 4) = 1
        /\ TimesCalled(d, 5) = 1

\* C27: every external call of the pipeline is bounded by a timeout that is
\* handled like a failure, so that every delivery is acknowledged in the
\* end, also when a collaborator never answers.
C27_EventuallyAcknowledged == (pc[1] = "load") ~> (ack[1] # NoAck)

\* delivery d is ignored in this step
Ignores(d) == pc[d] = "idle" /\ ack'[d] = AckIgnored

\* C28: an ignored delivery (its normalization is null or its validation
\* fails) has no effect but the acknowledgment: the session store is neither
\* read nor written, no collaborator is called and nothing is sent.
C28_IgnoredHasNoEffect ==
    /\ [](\A d \in Slots :
            ack[d] = AckIgnored =>
                /\ calls[d] = <<>>
                /\ outbound[d] = None
                /\ session[d] = FreshSession)
    /\ [][\A d \in Slots :
            Ignores(d) =>
                /\ store' = store
                /\ faults' = faults
                /\ outbound' = outbound
                /\ session' = session
                /\ calls' = calls]_vars

\* a body that normalizes to null was ignored after an earlier turn had
\* written its session
C28_NullIgnoredStoreKept ==
    \E d \in Slots :
        /\ ack[d] = AckIgnored
        /\ normalized[d].kind = "null"
        /\ calls[d] = <<>>
        /\ store # InitialStore

\* a ':digits' group stands directly before an '@' of the id
HasDeviceSuffix(id) ==
    \E i \in 1..Len(id) : \E j \in (i + 1)..(Len(id) - 1) :
        /\ id[i] = ":"
        /\ \A k \in (i + 1)..j : id[k] \in Digits
        /\ id[j + 1] = "@"

\* short is long without one ':digits' group that stood directly before an
\* '@', and no such group stands in long to the left of it
LeftmostSuffixCut(long, short) ==
    \E i \in 1..Len(long) : \E j \in (i + 1)..(Len(long) - 1) :
        /\ long[i] = ":"
        /\ \A k \in (i + 1)..j : long[k] \in Digits
        /\ long[j + 1] = "@"
        /\ short = SubSeq(long, 1, i - 1) \o SubSeq(long, j + 1, Len(long))
        /\ ~HasDeviceSuffix(SubSeq(long, 1, i))

\* the id a delivery was sent to, and the id it came with
SentTo(d) == outbound[d][1].conversationId

\* C29 (as stated): the conversation id given to the outbound sender never
\* holds a ':digits' group directly before the '@', and an inbound id
\* without one is passed as it is.
C29_NoSuffixOutbound ==
    \A d \in Slots :
        outbound[d] # None =>
            /\ ~HasDeviceSuffix(SentTo(d))
            /\ ~HasDeviceSuffix(Inbound(d).conversation) =>
                  SentTo(d) = Inbound(d).conversation

\* C29 (amended): the conversation id given to the outbound sender is the
\* inbound id without its leftmost ':digits' group that stands directly
\* before an '@'; an inbound id without such a group is passed as it is.
\* One group is removed, not every one.
C29_LeftmostSuffixRemoved ==
    \A d \in Slots :
        outbound[d] # None =>
            IF HasDeviceSuffix(Inbound(d).conversation)
            THEN LeftmostSuffixCut(Inbound(d).conversation, SentTo(d))
            ELSE SentTo(d) = Inbound(d).conversation

\* a reply was sent to an id that still ends its number with ':digits'
C29_SecondSuffixLeft ==
    \E d \in Slots :
        /\ outbound[d] # None
        /\ Inbound(d).conversation = ConvTwo
        /\ HasDeviceSuffix(SentTo(d))

\* the body is the event itself, an object with the tenant id, the
\* conversation id and the message at its top level, both ids present
ExposesFields ==
    /\ ~nraw.wrap
    /\ nraw.amz = "none"
    /\ nraw.p.instance # <<>>
    /\ nraw.p.conversation # <<>>

\* a normalizer's result is an event with the ids of the body
AcceptedWithIds(r) ==
    /\ r.kind = "event"
    /\ r.ev.instance = nraw.p.instance
    /\ r.ev.conversation = nraw.p.conversation

\* C30: a raw body that already exposes the three top-level fields (tenant
\* id, conversation id, message) is accepted as it is: normalization
\* returns an event, not null, with those ids whenever they are present.
C30_DirectObjectAccepted ==
    (ExposesFields /\ nres[DirectObject] # None) =>
        /\ AcceptedWithIds(nres[DirectObject][1].route)
        /\ AcceptedWithIds(nres[DirectObject][1].skrit)

\* the results of the normalizers for the encodings tried so far
NormResults ==
    UNION { {nres[e][1].route, nres[e][1].skrit} : e \in Tried }

\* C31: the type of an event follows a strict priority: the explicit
\* discriminator decides when present, then the mime type, then the marker of
\* the url, then text; an event whose discriminator is audio or image has
\* that type whatever its mime type and url say, and is never text.
C31_StrictPriority ==
    \A r \in NormResults :
        r.kind = "event" /\ nraw.p.dtype \in {"audio", "image"} =>
            r.ev.type = nraw.p.dtype

\* the media events normalizeInbound returned, each with the body it read
RouteMedia ==
    { [raw |-> Encoded(nraw, e), ev |-> nres[e][1].route.ev] :
        e \in {t \in Tried : /\ nres[t][1].route.kind = "event"
                              /\ nres[t][1].route.ev.type \in {"audio", "image"}} }

\* the key holds a base url with no signature, and all six signing
\* parameters are sibling keys
UnsignedWithParams(raw) == raw.shape = "key" /\ raw.p.url = "plain" /\ raw.amz = "strings"

\* the body holds no url, and the sender id and the message id
NoUrlWithIds(raw) == raw.p.url = "none" /\ raw.p.ids

\* the url in the key carries its signature
AlreadySigned(raw) == raw.shape = "key" /\ raw.p.url = "signed"

\* C32: for audio and image events alike, a base url without signature is
\* returned with every present signing parameter appended; with no url and
\* tenant id, sender id and message id known, the url is synthesized from
\* the storage path, with the signing parameters when available; a url
\* that carries its signature is not signed again.
C32_SignedUrlRebuilt ==
    \A m \in RouteMedia :
        /\ UnsignedWithParams(m.raw) =>
              m.ev.mediaUrl = Some(buildSignedUrl("payload", AllParams))
        /\ NoUrlWithIds(m.raw) =>
              /\ m.ev.mediaUrl # None
              /\ m.ev.mediaUrl[1].base = "synthesized"
              /\ m.raw.amz = "strings" => m.ev.mediaUrl[1].params = AllParams
        /\ AlreadySigned(m.raw) =>
              /\ m.ev.mediaUrl # None
              /\ ~(m.ev.mediaUrl[1].base = "payload-signed"
                      /\ m.ev.mediaUrl[1].params # {})

\* C33: every event a normalizer returns has the payload fields of its
\* type: a text event carries no media url, an audio or image event carries
\* no text body (its media url may be absent).
C33_FieldsMatchType ==
    \A r \in NormResults :
        r.kind = "event" =>
            /\ r.ev.type = "text" => r.ev.mediaUrl = None
            /\ r.ev.type \in {"audio", "image"} => r.ev.text = None

\* one body was returned as a text event with its text by one normalizer
\* and as an image event with neither text nor url by the other
C33_TextAndMediaReturned ==
    /\ \E r \in NormResults :
          r.kind = "event" /\ r.ev.type = "text" /\ r.ev.text # None
    /\ \E r \in NormResults :
          /\ r.kind = "event"
          /\ r.ev.type = "image"
          /\ r.ev.mediaUrl = None
          /\ r.ev.text = None

(***************************************************************************)
(* Properties of the catalog cache under calls in flight together.         *)
(***************************************************************************)
\* the complete row sets: every row of an answer of the store, parsed
WholeSnapshots == {ParseRows(t) : t \in {u \in Tables : ~RowsThrow(u)}}

\* the callers that await the store
Awaiting == {c \in Callers : loading[c].at = "query"}

\* C34: refreshes in flight together are not deduplicated and do no harm:
\* every call that finds the cache stale issues its own query, also while
\* another awaits the store; whatever the interleaving, the cache holds the
\* complete row set of the answer to one of those queries, never a part or
\* a mix, and no call is handed a partly built snapshot.
C34_ConcurrentRefreshesWhole ==
    /\ [](/\ cache # None => cache[1].rows \in WholeSnapshots
          /\ Cardinality(Awaiting) <= queried)
    /\ [][/\ \A c \in Callers :
                Issued(c) => Stale(loading'[c].force) /\ queried' = queried + 1
          /\ cache' # cache =>
                \E c \in Awaiting :
                    /\ Answered(c)
                    /\ returned'[1].caller = c
                    /\ returned'[1].answer.st = "returned"
                    /\ cache'[1].rows = ParseRows(AnsweredRows)
          /\ (Served \/ \E c \in Callers : Answered(c)) =>
                (returned'[1].catalog.st = "returned" =>
                    returned'[1].catalog.v \in WholeSnapshots)]_vars

\* two match calls found no snapshot and each asked the store; the answer to
\* one is installed while the other still awaits its own
C34_SecondQueryInFlight ==
    /\ queried = 2
    /\ cache # None
    /\ cache[1].loadedAt = clock
    /\ returned # None
    /\ returned[1].op = "match"
    /\ returned[1].answer.st = "returned"
    /\ cache[1].rows = ParseRows(returned[1].answer.v)
    /\ \E c \in Awaiting : loading[c].op = "match" /\ c # returned[1].caller

(***************************************************************************)
(* Properties of the message list of a session.                            *)
(***************************************************************************)
\* every message of a list is a user or an assistant message
OnlySessionRoles(messages) ==
    \A i \in DOMAIN messages : messages[i].role \in {"user", "assistant"}

\* the save of delivery d succeeded in this step
SaveWritten(d) == pc[d] = "save" /\ pc'[d] = "send" /\ Last(calls'[d]).ok

\* C35: every message of a session the pipeline works on, and of every
\* session a save writes, has role user or assistant: entries of a stored
\* list that are null or have another role are dropped by the load, and a
\* turn appends user and assistant messages only.
C35_OnlyUserAndAssistant ==
    /\ [](\A d \in Slots : OnlySessionRoles(session[d].messages))
    /\ [][\A d \in Slots :
            /\ pc[d] = "load" /\ pc'[d] = "content" /\ Hit(d)' /\ ~ParseThrows(LoadedBlob(d)')
                  /\ LoadedBlob(d)'.shape = "list"
                  => session'[d].messages =
                        SelectSeq(LoadedBlob(d)'.doc.messages, IsSessionRole)
            /\ SaveWritten(d) =>
                  /\ store'[Key(d)].blob.doc.messages = session[d].messages
                  /\ OnlySessionRoles(store'[Key(d)].blob.doc.messages)]_vars

\* a stored list with a system message and a null entry was loaded without
\* the two
C35_ForeignEntriesDropped ==
    \E d \in Slots :
        /\ Loaded(d)
        /\ Hit(d)
        /\ LoadedBlob(d) = LongBlob
        /\ \E i \in DOMAIN LongBlob.doc.messages :
              LongBlob.doc.messages[i].role = "system"
        /\ \E i \in DOMAIN LongBlob.doc.messages :
              LongBlob.doc.messages[i] = NullEntry
        /\ Len(session[d].messages) = Len(LongBlob.doc.messages) - 2

\* the store answered caller c with rows that parse, after the rows of a
\* query issued later than c's were installed
LateAnswer(c) ==
    /\ Answered(c)
    /\ returned'[1].catalog.st = "returned"
    /\ issued.held > issued.of[c]

\* C36: the cache never goes back under refreshes in flight together: once
\* the rows of a query issued later are installed, the rows of a query
\* issued earlier that is answered afterwards do not replace them, and the
\* load time of the snapshot does not become later for the older rows.
C36_NeverRegresses ==
    [][\A c \in Callers : LateAnswer(c) => cache' = cache]_vars

\* the list after a push and the cut to the maximum
Pushed(messages, role, content) ==
    LET all == Append(messages, Msg(role, content, now))
    IN IF Len(all) <= MAX_MESSAGES THEN all
       ELSE [i \in 1..MAX_MESSAGES |-> all[Len(all) - MAX_MESSAGES + i]]

Smaller(a, b) == IF a <= b THEN a ELSE b

\* the user message of delivery d is appended in this step
UserAppended(d) == pc[d] = "products" /\ pc'[d] = "generate"

\* the assistant message of delivery d is appended in this step
AssistantAppended(d) == pc[d] = "generate" /\ pc'[d] = "save"

\* the history of delivery d is the last n messages of its list
HistoryIsLast(d, n) ==
    /\ Len(decision'[d].recent) = n
    /\ \A i \in 1..n :
          LET m == session'[d].messages[Len(session'[d].messages) - n + i]
          IN decision'[d].recent[i] = [role |-> m.role, content |-> m.content]

\* C37: a processed turn appends exactly two messages to the session, the
\* user content and then the reply of the assistant; the history handed to
\* the generator is the last min(CONTEXT_WINDOW, length) messages of the
\* list after the first append and ends with the user message of the turn;
\* with MAX_MESSAGES >= 2 every saved session ends with a user message
\* followed by an assistant message.
C37_TwoAppendsPerTurn ==
    [][\A d \in Slots :
          /\ UserAppended(d) =>
                /\ session'[d].messages =
                      Pushed(session[d].messages, "user", userContent[d])
                /\ HistoryIsLast(d, Smaller(CONTEXT_WINDOW, Len(session'[d].messages)))
                /\ Last(decision'[d].recent) =
                      [role |-> "user", content |-> userContent[d]]
          /\ AssistantAppended(d) =>
                session'[d].messages =
                    Pushed(session[d].messages, "assistant", responseText'[d])
          /\ pc[d] \in {"content", "vehicle", "match", "save", "send"} =>
                session'[d].messages = session[d].messages
          /\ SaveWritten(d) =>
                LET m == store'[Key(d)].blob.doc.messages
                IN /\ Len(m) >= 2
                   /\ m[Len(m) - 1].role = "user"
                   /\ m[Len(m) - 1].content = userContent[d]
                   /\ m[Len(m)].role = "assistant"
                   /\ m[Len(m)].content = responseText[d]]_vars

\* a turn whose list reached the maximum was saved: the history was the
\* last CONTEXT_WINDOW messages, fewer than the list held, and the record
\* ends with the two messages of the turn
C37_WindowOfLongList ==
    \E d \in Slots :
        /\ pc[d] = "send"
        /\ Last(calls[d]).ok
        /\ Len(session[d].messages) = MAX_MESSAGES
        /\ CONTEXT_WINDOW < MAX_MESSAGES
        /\ Len(decision[d].recent) = CONTEXT_WINDOW
        /\ Last(decision[d].recent).content = userContent[d]
        /\ store[Key(d)].blob.doc.messages = session[d].messages
        /\ session[d].messages[MAX_MESSAGES - 1].role = "user"
        /\ session[d].messages[MAX_MESSAGES].role = "assistant"

(***************************************************************************)
(* Properties of the condition of the product fetch.                       *)
(***************************************************************************)
\* the session holds a vehicle identifier
HoldsVehicleId(sess) ==
    sess.vehicle # None /\ sess.vehicle[1].vehicleId \notin {None, Some(0)}

\* the first part match of the session has a family id
HasFamilyId(sess) ==
    /\ sess.partMatches # None
    /\ Len(sess.partMatches[1]) > 0
    /\ sess.partMatches[1][1].id # 0

\* the product service was called in this step
Fetched(d) ==
    /\ Len(calls'[d]) = Len(calls[d]) + 1
    /\ Last(calls'[d]).op = "productsByVehicle"

\* C38: the product fetch is issued in a turn if and only if the session
\* holds a vehicle identifier and has a best part match with a family id;
\* when one of the two is missing or 0 no product call is made, the selected
\* product is null and the alternatives are empty; the product service is
\* called in no other step.
C38_FetchIffVehicleAndFamily ==
    [][\A d \in Slots :
          /\ ProductStep(d) =>
                /\ Fetched(d) <=> HoldsVehicleId(session[d]) /\ HasFamilyId(session[d])
                /\ ~Fetched(d) =>
                      /\ calls'[d] = calls[d]
                      /\ session'[d].selectedProduct = Null
                      /\ session'[d].productAlternatives = Some(<<>>)
          /\ ~ProductStep(d) => ~Fetched(d)]_vars

\* a turn whose session holds a vehicle with id 0 and a best match went past
\* the product stage without a product call
C38_ZeroIdSkipped ==
    \E d \in Slots :
        /\ pc[d] = "generate"
        /\ session[d].vehicle # None
        /\ session[d].vehicle[1].vehicleId = Some(0)
        /\ HasFamilyId(session[d])
        /\ ~HasCall(d, "productsByVehicle")
        /\ session[d].selectedProduct = Null
        /\ session[d].productAlternatives = Some(<<>>)

(***************************************************************************)
(* Properties of the handling of the assistant's own messages.             *)
(***************************************************************************)
\* the bodies the sender flags as sent by the assistant
OwnBodies == {raw \in PipelineBodies : IsMine(raw.p)}

\* delivery d is of a body flagged isMine
FromAssistant(d) ==
    pc[d] # "idle" /\ \E raw \in OwnBodies : normalized[d] = normalizeInbound(raw)

\* C39: a delivery whose sender is flagged as the assistant itself
\* (from.isMine = true) is ignored: it is acknowledged with ignored: true,
\* the session is neither read nor written, no reply is generated and
\* nothing is sent, so the assistant never replies to its own messages.
C39_OwnMessagesIgnored ==
    \A d \in Slots :
        FromAssistant(d) =>
            /\ calls[d] = <<>>
            /\ outbound[d] = None
            /\ Done(d) => ack[d] = AckIgnored

====
